---- MODULE Spec2Model ----
(***************************************************************************)
(* Model of the alert-detection engine (lib/alerts.py: Alert,              *)
(* AlertDetector, AlertManager) and of the backup comparator               *)
(* (scripts/utils/compare_backups.py: BackupComparator).                   *)
(*                                                                         *)
(* Python values are modelled as follows.                                  *)
(*   dict            a function whose DOMAIN is the set of keys present    *)
(*   d.get(k)        Get(d, k): <<v>> when k is present, <<>> (None) else  *)
(*   d.get(k, dflt)  GetD(d, k, dflt)                                      *)
(*   list            a sequence                                            *)
(*   Optional[list]  [given |-> BOOLEAN, list |-> sequence]                *)
(*   datetime        [sec |-> seconds, usec |-> microseconds] (naive)      *)
(*   float           [m |-> 53 mantissa bits, x |-> exponent], see below   *)
(***************************************************************************)
EXTENDS Integers, Sequences, FiniteSets, TLC

VARIABLES
    now,                \* the reading of datetime.now() during the call
    config,             \* AlertDetector.config: the caller's override mapping
    thresholds,         \* AlertDetector.thresholds
    workspace_data,     \* run_all_checks: the current snapshot (a dict)
    previous_data,      \* run_all_checks: the previous snapshot (Optional dict)
    users,              \* current snapshot: users; full_backup.main: `users`
    previous_users,     \* previous snapshot: users (Optional)
    channels,           \* current snapshot: channels; full_backup.main: `channels`
    previous_channels,  \* previous snapshot: channels (Optional)
    files,              \* current snapshot: files; full_backup.main: `files`
    pc,                 \* position of the caller
    result,             \* the list of alerts the last call returned
    first_result,       \* history: what the first of two runs on a detector returned
    mgr_alerts,         \* AlertManager.alerts
    alert_file,         \* the file at AlertManager.alert_file
    added_log,          \* history: the alerts passed to add_alert / add_alerts, in call order
    answer,             \* what the last get_alerts / get_summary call returned, with its arguments
    saved,              \* history: the alerts the manager held when save() last ran
    backup1,            \* BackupComparator.backup1: the older backup directory
    backup2,            \* BackupComparator.backup2: the newer backup directory
    report,             \* the report BackupComparator(backup1, backup2) builds
    swapped_report,     \* the report BackupComparator(backup2, backup1) builds
    args,               \* smart_alerts.main, full_backup.main: the parsed command line
    data_file,          \* smart_alerts.main: the snapshot file at args.data_file
    main_alerts,        \* smart_alerts.main: `alerts`, what run_all_checks returned (Optional)
    writable,           \* environment: which files open(..., 'w') succeeds on
    exit_code,          \* smart_alerts.main: the argument of sys.exit, <<>> while running
    detector_arg,       \* AlertDetector(config): the argument of a constructor call (Optional dict)
    script,             \* SlackScript: require_slack and the attributes run() assigns
    run_log,            \* history: the steps SlackScript.run invoked, each with its outcome
    run_pending,        \* SlackScript.run: the return or raise that waits for the finally clause
    run_outcome,        \* how SlackScript.run finished: a returned code or an escaped exception
    api,                \* SlackManager: its config, max_retries, and the attempts of one _api_call_with_retry
    invocations         \* history: earlier smart_alerts runs on the same snapshot file

vars == <<now, config, thresholds, workspace_data, previous_data, users,
          previous_users, channels, previous_channels, files, pc, result,
          first_result, mgr_alerts, alert_file, added_log, answer, saved, backup1, backup2, report,
          swapped_report, args, data_file, main_alerts, writable, exit_code,
          detector_arg, script, run_log, run_pending, run_outcome, api, invocations>>

\* the state of the smart_alerts script
scriptVars == <<args, data_file, main_alerts, writable, exit_code>>

\* the state of the backup comparators
comparatorVars == <<backup1, backup2, report, swapped_report>>

\* the state of the detector and of its caller
detectorVars == <<config, thresholds, workspace_data, previous_data, users,
                  previous_users, channels, previous_channels, files, result,
                  first_result>>

\* the state of the alert manager
managerVars == <<mgr_alerts, alert_file, added_log, answer, saved>>

\* the state of the library classes that are called on their own
libVars == <<detector_arg, script, run_log, run_pending, run_outcome, api, invocations>>

\* what a call of a single check leaves alone
callArgs == <<libVars, now, config, thresholds, workspace_data, previous_data, users,
              previous_users, channels, previous_channels, files, first_result,
              managerVars, comparatorVars, scriptVars>>

----------------------------------------------------------------------------
(* Bounds of the model *)

\* longest list of free-form user records
MaxUsers == 2

\* largest generated population of active users
MaxPop == 20

\* number of distinct record identifiers in a snapshot
MaxIds == 2

\* number of distinct record identifiers in a backup
MaxBackupIds == 3

\* most alerts an AlertManager holds
MaxAlerts == 2

\* longest list of free-form file records
MaxFiles == 3

\* largest generated population of externally shared channels
MaxShared == 22

\* most recognized keys an override mapping carries
MaxOverrides == 2

\* most users, channels or files a workspace holds when it is backed up
MaxSaved == 2

\* most consecutive runs of smart_alerts on one snapshot file
MaxRuns == 3

\* largest max_retries a configuration file carries
MaxRetries == 4

\* largest number of entities a check finds in the populations built for the samples
MaxSampled == 22

\* longest list of records in a backup whose lists may repeat an id
MaxListed == 3

\* granularity of file sizes: a size unit is 1/UnitsPerGB of a gigabyte
UnitsPerGB == 4

----------------------------------------------------------------------------
(* Python dict / list helpers *)

Get(d, k) == IF k \in DOMAIN d THEN <<d[k]>> ELSE <<>>

GetD(d, k, dflt) == IF k \in DOMAIN d THEN d[k] ELSE dflt

\* truthiness of d.get(k) for a boolean flag
Flag(d, k) == IF k \in DOMAIN d THEN d[k] ELSE FALSE

\* dict union, the left operand wins
Merge(d1, d2) ==
    [k \in (DOMAIN d1) \cup (DOMAIN d2) |-> IF k \in DOMAIN d1 THEN d1[k] ELSE d2[k]]

\* s[:n]
\* a slice that keeps the whole list
TakeUncapped(s, n) == s

Take(s, n) == IF Len(s) <= n THEN s ELSE SubSeq(s, 1, n)

Min(a, b) == IF a <= b THEN a ELSE b

SeqsUpTo(S, n) == UNION {[1..k -> S] : k \in 0..n}

\* n copies of x
Repeat(x, n) == [i \in 1..n |-> x]

----------------------------------------------------------------------------
(* datetime *)

SecondsPerDay == 86400

\* datetime.fromtimestamp(ts) for an integer ts
fromtimestamp(ts) == [sec |-> ts, usec |-> 0]

\* dt - timedelta(days=d)
MinusDays(dt, d) == [sec |-> dt.sec - d * SecondsPerDay, usec |-> dt.usec]

\* a < b on datetimes
DtLess(a, b) == a.sec < b.sec \/ (a.sec = b.sec /\ a.usec < b.usec)

\* (a - b).days, for a >= b
DaysBetween(a, b) ==
    IF a.usec >= b.usec THEN (a.sec - b.sec) \div SecondsPerDay
    ELSE (a.sec - b.sec - 1) \div SecondsPerDay

----------------------------------------------------------------------------
(* IEEE-754 double arithmetic on naturals, as Python's  n / t * 100  does  *)
(* it: the quotient is rounded to 53 bits (nearest, ties to even), and the *)
(* product with 100 is rounded again.  Bit strings are little-endian       *)
(* sequences over {0, 1}; a float is [m |-> 53 bits, x |-> exponent] with  *)
(* value  m * 2^x.                                                         *)

MantissaBits == 53

RECURSIVE NatToLE(_)
NatToLE(n) == IF n = 0 THEN <<>> ELSE <<n % 2>> \o NatToLE(n \div 2)

RECURSIVE StripLE(_)
StripLE(b) ==
    IF b = <<>> THEN <<>>
    ELSE IF b[Len(b)] = 0 THEN StripLE(SubSeq(b, 1, Len(b) - 1)) ELSE b

\* b + 1
RECURSIVE IncLE(_)
IncLE(b) ==
    IF b = <<>> THEN <<1>>
    ELSE IF Head(b) = 0 THEN <<1>> \o Tail(b) ELSE <<0>> \o IncLE(Tail(b))

\* b * c + carry, for a small natural c
RECURSIVE MulLE(_, _, _)
MulLE(b, c, carry) ==
    IF b = <<>> THEN NatToLE(carry)
    ELSE LET v == Head(b) * c + carry
         IN  <<v % 2>> \o MulLE(Tail(b), c, v \div 2)

\* a > b for stripped bit strings
RECURSIVE GreaterLE(_, _)
GreaterLE(a, b) ==
    IF Len(a) # Len(b) THEN Len(a) > Len(b)
    ELSE IF a = <<>> THEN FALSE
    ELSE IF a[Len(a)] # b[Len(b)] THEN a[Len(a)] > b[Len(b)]
    ELSE GreaterLE(SubSeq(a, 1, Len(a) - 1), SubSeq(b, 1, Len(b) - 1))

\* the first k bits (most significant first) of the binary fraction r / t, r < t
RECURSIVE FracBits(_, _, _)
FracBits(r, t, k) ==
    IF k = 0 THEN <<>>
    ELSE IF 2 * r >= t THEN <<1>> \o FracBits(2 * r - t, t, k - 1)
         ELSE <<0>> \o FracBits(2 * r, t, k - 1)

\* the remainder left after those k bits
RECURSIVE FracRem(_, _, _)
FracRem(r, t, k) ==
    IF k = 0 THEN r
    ELSE IF 2 * r >= t THEN FracRem(2 * r - t, t, k - 1)
         ELSE FracRem(2 * r, t, k - 1)

\* the number of leading zero bits of the fraction r / t, plus one
RECURSIVE LeadExp(_, _)
LeadExp(r, t) == IF 2 * r >= t THEN 1 ELSE 1 + LeadExp(2 * r, t)

Reverse(s) == [i \in 1..Len(s) |-> s[Len(s) + 1 - i]]

\* round a bit string of more than 53 bits, worth 2^x per unit, to a float
RoundToFloat(b, x) ==
    LET drop   == Len(b) - MantissaBits
        kept   == SubSeq(b, drop + 1, Len(b))
        half   == drop > 0 /\ b[drop] = 1
        sticky == \E i \in 1..(drop - 1) : b[i] = 1
        up     == half /\ (sticky \/ kept[1] = 1)
        inc    == IF up THEN IncLE(kept) ELSE kept
    IN  IF Len(inc) > MantissaBits
        THEN [m |-> Tail(inc), x |-> x + drop + 1]
        ELSE [m |-> inc, x |-> x + drop]

\* float(n) / float(t) for naturals 0 < n < t
FloatDiv(n, t) ==
    LET e    == LeadExp(n, t)
        k    == e + MantissaBits - 1
        bits == SubSeq(FracBits(n, t, k), e, k)
        r    == FracRem(n, t, k)
        up   == 2 * r > t \/ (2 * r = t /\ bits[MantissaBits] = 1)
        le   == Reverse(bits)
        inc  == IF up THEN IncLE(le) ELSE le
    IN  IF Len(inc) > MantissaBits
        THEN [m |-> Tail(inc), x |-> 1 - k]
        ELSE [m |-> inc, x |-> 0 - k]

\* f * 100
FloatMul100(f) == RoundToFloat(MulLE(f.m, 100, 0), f.x)

\* f > p for a float f with a negative exponent and an integer p
FloatGreaterInt(f, p) ==
    IF p < 0 THEN TRUE
    ELSE GreaterLE(StripLE(f.m), StripLE(Repeat(0, 0 - f.x) \o NatToLE(p)))

\* (n / t * 100) > p, for naturals n <= t, t > 0, and an integer p
PercentageExceeds(n, t, p) ==
    IF n = 0 THEN 0 > p
    ELSE IF n = t THEN 100 > p
    ELSE FloatGreaterInt(FloatMul100(FloatDiv(n, t)), p)

----------------------------------------------------------------------------
(* Alert *)

SEVERITY_INFO == "info"
SEVERITY_WARNING == "warning"
SEVERITY_CRITICAL == "critical"

\* Alert.__init__; ts is the reading of datetime.now() in the constructor.
\* message is the f-string's template with the integers it embeds.
Alert(alert_type, severity, title, message, details, ts) ==
    [alert_type |-> alert_type,
     severity   |-> severity,
     title      |-> title,
     message    |-> message,
     details    |-> details,
     timestamp  |-> ts]

----------------------------------------------------------------------------
(* AlertDetector *)

\* the thresholds read under the names they are stored under
DetectorThresholdsByStoredName(cfg) ==
    [inactive_user_days       |-> GetD(cfg, "inactive_user_days", 90),
     inactive_user_percentage |-> GetD(cfg, "inactive_user_percentage", 30),
     storage_warning_gb       |-> GetD(cfg, "storage_warning_gb", 80),
     storage_critical_gb      |-> GetD(cfg, "storage_critical_gb", 95),
     deactivation_spike_count |-> GetD(cfg, "deactivation_spike_count", 5),
     admin_change_spike       |-> GetD(cfg, "admin_change_spike", 3),
     channel_archive_spike    |-> GetD(cfg, "channel_archive_spike", 10),
     guest_account_percentage |-> GetD(cfg, "guest_account_percentage", 20),
     external_sharing_count   |-> GetD(cfg, "external_sharing_count", 50)]

\* AlertDetector.__init__: the thresholds, each the override or its default
DetectorThresholds(cfg) ==
    [inactive_user_days       |-> GetD(cfg, "inactive_user_threshold", 90),
     inactive_user_percentage |-> GetD(cfg, "inactive_user_percentage", 30),
     storage_warning_gb       |-> GetD(cfg, "storage_warning_gb", 80),
     storage_critical_gb      |-> GetD(cfg, "storage_critical_gb", 95),
     deactivation_spike_count |-> GetD(cfg, "deactivation_spike", 5),
     admin_change_spike       |-> GetD(cfg, "admin_change_spike", 3),
     channel_archive_spike    |-> GetD(cfg, "channel_archive_spike", 10),
     guest_account_percentage |-> GetD(cfg, "guest_percentage", 20),
     external_sharing_count   |-> GetD(cfg, "external_sharing_limit", 50)]

\* the sample lists of some checks keep the first 20 entries
SampleCap == 20

\* u is counted in the workspace: neither deleted nor a bot
IsActiveUser(u) == ~Flag(u, "deleted") /\ ~Flag(u, "is_bot")

\* IsInactiveUser without the is_bot exclusion
IsInactiveUserCountingBots(u, threshold_date) ==
    /\ ~Flag(u, "deleted")
    /\ GetD(u, "updated", 0) # 0
    /\ DtLess(fromtimestamp(GetD(u, "updated", 0)), threshold_date)

\* the loop body of check_inactive_users: u is appended to inactive_users
IsInactiveUser(u, threshold_date) ==
    /\ ~(Flag(u, "deleted") \/ Flag(u, "is_bot"))
    /\ GetD(u, "updated", 0) # 0
    /\ DtLess(fromtimestamp(GetD(u, "updated", 0)), threshold_date)

InactiveEntry(u, clock) ==
    LET last_activity == fromtimestamp(GetD(u, "updated", 0))
    IN  [id            |-> Get(u, "id"),
         name          |-> Get(u, "name"),
         real_name     |-> Get(GetD(u, "profile", <<>>), "real_name"),
         last_activity |-> last_activity.sec \div SecondsPerDay,
         days_inactive |-> DaysBetween(clock, last_activity)]

InactiveSeverity(inactive_count, total_users, th) ==
    IF (IF total_users > 0
        THEN PercentageExceeds(inactive_count, total_users, th.inactive_user_percentage)
        ELSE 0 > th.inactive_user_percentage)
    THEN SEVERITY_CRITICAL ELSE SEVERITY_WARNING

check_inactive_users(us, th, clock) ==
    LET threshold_days == th.inactive_user_days
        threshold_date == MinusDays(clock, threshold_days)
        Inactive(u)    == IsInactiveUser(u, threshold_date)
        stale          == SelectSeq(us, Inactive)
        inactive_users == [i \in 1..Len(stale) |-> InactiveEntry(stale[i], clock)]
        total_users    == Len(SelectSeq(us, IsActiveUser))
    IN  IF inactive_users # <<>>
        THEN << Alert("user_activity",
                      InactiveSeverity(Len(inactive_users), total_users, th),
                      "Inactive Users Detected",
                      [text |-> "Found {} users inactive for {}+ days",
                       args |-> <<Len(inactive_users), threshold_days>>],
                      [inactive_count |-> Len(inactive_users),
                       total_users    |-> total_users,
                       threshold_days |-> threshold_days,
                       users          |-> Take(inactive_users, SampleCap)],
                      clock) >>
        ELSE <<>>

\* the `days` parameter of check_recent_deactivations (its default)
DefaultDays == 7

\* the loop body of check_recent_deactivations: u is appended to recent_deactivations
IsRecentDeactivation(u, cutoff_date) ==
    /\ Flag(u, "deleted")
    /\ GetD(u, "updated", 0) # 0
    /\ ~DtLess(fromtimestamp(GetD(u, "updated", 0)), cutoff_date)

DeactivationEntry(u) ==
    [id        |-> Get(u, "id"),
     name      |-> Get(u, "name"),
     real_name |-> Get(GetD(u, "profile", <<>>), "real_name"),
     date      |-> GetD(u, "updated", 0) \div SecondsPerDay]

\* the spike test with > in place of >=
DeactivationSpikeStrict(count, th) == count > th.deactivation_spike_count

\* len(recent_deactivations) >= self.thresholds['deactivation_spike_count']
DeactivationSpike(count, th) == count >= th.deactivation_spike_count

check_recent_deactivations(us, th, clock, days) ==
    LET cutoff_date == MinusDays(clock, days)
        Recent(u)   == IsRecentDeactivation(u, cutoff_date)
        recent      == SelectSeq(us, Recent)
        recent_deactivations == [i \in 1..Len(recent) |-> DeactivationEntry(recent[i])]
    IN  IF DeactivationSpike(Len(recent_deactivations), th)
        THEN << Alert("user_deactivation",
                      SEVERITY_CRITICAL,
                      "Unusual Deactivation Spike",
                      [text |-> "{} users deactivated in the last {} days",
                       args |-> <<Len(recent_deactivations), days>>],
                      [deactivation_count |-> Len(recent_deactivations),
                       days               |-> days,
                       users              |-> recent_deactivations],
                      clock) >>
        ELSE <<>>

\* the truth value of an Optional[list]: None and [] are both false
Truthy(opt) == opt.given /\ opt.list # <<>>

\* {u['id']: u for u in l}: a later record replaces an earlier one with its id
DictById(l) ==
    [k \in {l[i].id : i \in 1..Len(l)} |->
        l[CHOOSE i \in 1..Len(l) :
            l[i].id = k /\ \A j \in 1..Len(l) : l[j].id = k => j <= i]]

\* the elements of a set of integers in the order the process iterates it
\* (for one process a fixed order: ascending here)
RECURSIVE SetToSeq(_)
SetToSeq(S) ==
    IF S = {} THEN <<>>
    ELSE LET m == CHOOSE x \in S : \A y \in S : x <= y
         IN  <<m>> \o SetToSeq(S \ {m})

\* owner_count with the deleted owners counted too
OwnerCountWithDeleted(us) == Len(SelectSeq(us, LAMBDA u : Flag(u, "is_owner")))

\* len([u for u in users if u.get('is_owner') and not u.get('deleted')])
OwnerCount(us) == Len(SelectSeq(us, LAMBDA u : Flag(u, "is_owner") /\ ~Flag(u, "deleted")))

OwnerAlerts(us, clock) ==
    IF OwnerCount(us) = 0
    THEN << Alert("permissions", SEVERITY_CRITICAL, "No Workspace Owners",
                  [text |-> "No active workspace owners detected", args |-> <<>>],
                  [owner_count |-> 0], clock) >>
    ELSE IF OwnerCount(us) = 1
    THEN << Alert("permissions", SEVERITY_WARNING, "Single Workspace Owner",
                  [text |-> "Only one workspace owner", args |-> <<>>],
                  [owner_count |-> 1], clock) >>
    ELSE <<>>

\* the entries appended to admin_changes for one user id
ChangesOf(user_id, prev_users_dict, current_users_dict) ==
    LET prev_user == GetD(prev_users_dict, user_id, <<>>)
        curr_user == GetD(current_users_dict, user_id, <<>>)
        name      == IF "name" \in DOMAIN curr_user THEN <<curr_user.name>>
                     ELSE Get(prev_user, "name")
        Change(role, key) ==
            IF Get(prev_user, key) # Get(curr_user, key)
            THEN << [user_id |-> user_id,
                     name    |-> name,
                     change  |-> IF Flag(curr_user, key) THEN "granted" ELSE "revoked",
                     role    |-> role] >>
            ELSE <<>>
    IN  Change("admin", "is_admin") \o Change("owner", "is_owner")

RECURSIVE AdminChanges(_, _, _)
AdminChanges(ids, prev_users_dict, current_users_dict) ==
    IF ids = <<>> THEN <<>>
    ELSE ChangesOf(Head(ids), prev_users_dict, current_users_dict)
         \o AdminChanges(Tail(ids), prev_users_dict, current_users_dict)

ChangeAlerts(us, prev, th, clock) ==
    IF Truthy(prev)
    THEN LET prev_users_dict    == DictById(prev.list)
             current_users_dict == DictById(us)
             ids == SetToSeq((DOMAIN prev_users_dict) \cup (DOMAIN current_users_dict))
             admin_changes == AdminChanges(ids, prev_users_dict, current_users_dict)
         IN  IF Len(admin_changes) >= th.admin_change_spike
             THEN << Alert("permissions", SEVERITY_WARNING, "Multiple Permission Changes",
                           [text |-> "{} admin/owner permission changes detected",
                            args |-> <<Len(admin_changes)>>],
                           [change_count |-> Len(admin_changes),
                            changes      |-> admin_changes],
                           clock) >>
             ELSE <<>>
    ELSE <<>>

check_admin_changes(us, prev, th, clock) ==
    OwnerAlerts(us, clock) \o ChangeAlerts(us, prev, th, clock)

\* sum(f.get('size', 0) for f in files)
RECURSIVE TotalSize(_)
TotalSize(fs) ==
    IF fs = <<>> THEN 0 ELSE GetD(Head(fs), "size", 0) + TotalSize(Tail(fs))

\* total_gb >= threshold, where total_gb = total / 1024**3.  Sizes are counted
\* in units of 1/UnitsPerGB gigabyte; the division by a power of two is exact
\* in floating point, so the comparison is the comparison of the integers.
GbAtLeast(total, threshold) == total >= threshold * UnitsPerGB

StorageAlert(severity, title, threshold, fs, clock) ==
    Alert("storage", severity, title,
          [text |-> "Workspace storage at {} GB (threshold: {} GB)", args |-> <<threshold>>],
          [threshold |-> threshold, file_count |-> Len(fs)],
          clock)

\* check_storage with the warning branch tested first
check_storage_warning_first(fs, th, clock) ==
    LET total_bytes        == TotalSize(fs)
        warning_threshold  == th.storage_warning_gb
        critical_threshold == th.storage_critical_gb
    IN  IF GbAtLeast(total_bytes, warning_threshold)
        THEN << StorageAlert(SEVERITY_WARNING, "High Storage Usage",
                             warning_threshold, fs, clock) >>
        ELSE IF GbAtLeast(total_bytes, critical_threshold)
        THEN << StorageAlert(SEVERITY_CRITICAL, "Critical Storage Usage",
                             critical_threshold, fs, clock) >>
        ELSE <<>>

check_storage(fs, th, clock) ==
    LET total_bytes        == TotalSize(fs)
        warning_threshold  == th.storage_warning_gb
        critical_threshold == th.storage_critical_gb
    IN  IF GbAtLeast(total_bytes, critical_threshold)
        THEN << StorageAlert(SEVERITY_CRITICAL, "Critical Storage Usage",
                             critical_threshold, fs, clock) >>
        ELSE IF GbAtLeast(total_bytes, warning_threshold)
        THEN << StorageAlert(SEVERITY_WARNING, "High Storage Usage",
                             warning_threshold, fs, clock) >>
        ELSE <<>>

IsGuest(u) == Flag(u, "is_restricted") \/ Flag(u, "is_ultra_restricted")

check_guest_accounts(us, th, clock) ==
    LET active_users == SelectSeq(us, IsActiveUser)
        guest_users  == SelectSeq(active_users, IsGuest)
    IN  IF active_users # <<>>
           /\ PercentageExceeds(Len(guest_users), Len(active_users),
                                th.guest_account_percentage)
        THEN << Alert("security", SEVERITY_WARNING, "High Guest Account Percentage",
                      [text |-> "{} guest accounts", args |-> <<Len(guest_users)>>],
                      [guest_count |-> Len(guest_users),
                       total_users |-> Len(active_users),
                       threshold   |-> th.guest_account_percentage],
                      clock) >>
        ELSE <<>>

\* {'id': c['id'], 'name': c.get('name')}
ChannelEntry(c) == [id |-> c.id, name |-> Get(c, "name")]

IsArchived(c) == Flag(c, "is_archived")

\* set(curr_archived.keys()) - set(prev_archived.keys())
NewlyArchived(chs, prev) ==
    (DOMAIN DictById(SelectSeq(chs, IsArchived)))
        \ (DOMAIN DictById(SelectSeq(prev.list, IsArchived)))

check_archived_channels(chs, prev, th, clock) ==
    IF Truthy(prev)
    THEN LET curr_archived  == DictById(SelectSeq(chs, IsArchived))
             newly_archived == NewlyArchived(chs, prev)
             newly_ids      == SetToSeq(newly_archived)
             channels_list  == [i \in 1..Len(newly_ids) |-> curr_archived[newly_ids[i]]]
             sample         == Take(channels_list, SampleCap)
         IN  IF Cardinality(newly_archived) >= th.channel_archive_spike
             THEN << Alert("channel_management", SEVERITY_WARNING, "Channel Archival Spike",
                           [text |-> "{} channels archived recently",
                            args |-> <<Cardinality(newly_archived)>>],
                           [archived_count |-> Cardinality(newly_archived),
                            channels |-> [i \in 1..Len(sample) |-> ChannelEntry(sample[i])]],
                           clock) >>
             ELSE <<>>
    ELSE <<>>

\* the external_channels filter without the is_archived exclusion
IsExternalCountingArchived(c) == Flag(c, "is_ext_shared")

IsExternal(c) == Flag(c, "is_ext_shared") /\ ~Flag(c, "is_archived")

check_external_sharing(chs, th, clock) ==
    LET external_channels == SelectSeq(chs, IsExternal)
        sample            == Take(external_channels, SampleCap)
    IN  IF Len(external_channels) > th.external_sharing_count
        THEN << Alert("security", SEVERITY_INFO, "Multiple External Shared Channels",
                      [text |-> "{} channels are shared with external workspaces",
                       args |-> <<Len(external_channels)>>],
                      [external_count |-> Len(external_channels),
                       threshold      |-> th.external_sharing_count,
                       channels |-> [i \in 1..Len(sample) |-> ChannelEntry(sample[i])]],
                      clock) >>
        ELSE <<>>

\* a record without the key 'id': r['id'] raises KeyError
LacksId(r) == "id" \notin DOMAIN r

\* check_admin_changes raises KeyError: with a non-empty previous list, the
\* two dict comprehensions subscript the id of every previous and current user
KeyErrorInAdminChanges(us, prev) ==
    /\ Truthy(prev)
    /\ \/ \E i \in 1..Len(prev.list) : LacksId(prev.list[i])
       \/ \E i \in 1..Len(us) : LacksId(us[i])

\* check_archived_channels raises KeyError: with a non-empty previous list, the
\* two dict comprehensions subscript the id of every archived channel
KeyErrorInArchivedChannels(chs, prev) ==
    /\ Truthy(prev)
    /\ \/ \E i \in 1..Len(prev.list) : IsArchived(prev.list[i]) /\ LacksId(prev.list[i])
       \/ \E i \in 1..Len(chs) : IsArchived(chs[i]) /\ LacksId(chs[i])

\* check_external_sharing raising for an external channel without id whether
\* or not it alerts
KeyErrorInExternalSharingAnyChannel(chs, th) ==
    \E i \in 1..Len(chs) : IsExternal(chs[i]) /\ LacksId(chs[i])

\* check_external_sharing raises KeyError: when it alerts, the sample
\* subscripts the id of the first external channels
KeyErrorInExternalSharing(chs, th) ==
    LET external_channels == SelectSeq(chs, IsExternal)
        sample            == Take(external_channels, SampleCap)
    IN  /\ Len(external_channels) > th.external_sharing_count
        /\ \E i \in 1..Len(sample) : LacksId(sample[i])

\* all_alerts.extend(new) with the new alerts put in front
ExtendInFront(all_alerts, new) == new \o all_alerts

\* all_alerts.extend(new)
Extend(all_alerts, new) == all_alerts \o new

\* the truth value of an Optional[dict]: None and {} are both false
TruthyData(opt) == opt.given /\ DOMAIN opt.dict # {}

----------------------------------------------------------------------------
(* AlertManager *)

\* AlertManager.add_alert
add_alert(alerts, alert) == Append(alerts, alert)

\* add_alerts skipping the alerts the manager already holds
add_alerts_deduplicating(alerts, new) ==
    alerts \o SelectSeq(new, LAMBDA a : \A i \in 1..Len(alerts) : alerts[i] # a)

\* AlertManager.add_alerts
add_alerts(alerts, new) == alerts \o new

\* `if severity:` on an Optional[str]: None (<<>>) and '' are both false
TruthyFilter(f) == f # <<>> /\ f[1] # ""

\* AlertManager.get_alerts; a filter that is not given is <<>>, a given one <<v>>
get_alerts(alerts, severity, alert_type) ==
    LET by_severity == IF TruthyFilter(severity)
                       THEN SelectSeq(alerts, LAMBDA a : a.severity = severity[1])
                       ELSE alerts
    IN  IF TruthyFilter(alert_type)
        THEN SelectSeq(by_severity, LAMBDA a : a.alert_type = alert_type[1])
        ELSE by_severity

\* _count_by_type keeping an entry for every type the checks emit
count_by_type_zeroed(alerts) ==
    [t \in {alerts[i].alert_type : i \in 1..Len(alerts)}
            \cup {"user_activity", "user_deactivation", "permissions", "storage",
                  "security", "channel_management"} |->
        Cardinality({i \in 1..Len(alerts) : alerts[i].alert_type = t})]

\* AlertManager._count_by_type
count_by_type(alerts) ==
    [t \in {alerts[i].alert_type : i \in 1..Len(alerts)} |->
        Cardinality({i \in 1..Len(alerts) : alerts[i].alert_type = t})]

\* AlertManager.get_summary
get_summary(alerts) ==
    [total    |-> Len(alerts),
     critical |-> Len(get_alerts(alerts, <<SEVERITY_CRITICAL>>, <<>>)),
     warning  |-> Len(get_alerts(alerts, <<SEVERITY_WARNING>>, <<>>)),
     info     |-> Len(get_alerts(alerts, <<SEVERITY_INFO>>, <<>>)),
     by_type  |-> count_by_type(alerts)]

\* datetime.isoformat(): the date and time to the second, followed by the
\* microseconds only when they are not zero
isoformat(dt) == IF dt.usec = 0 THEN <<dt.sec>> ELSE <<dt.sec, dt.usec>>

\* datetime.fromisoformat()
fromisoformat(text) ==
    [sec |-> text[1], usec |-> IF Len(text) > 1 THEN text[2] ELSE 0]

\* Alert.to_dict
to_dict(a) ==
    [alert_type |-> a.alert_type,
     severity   |-> a.severity,
     title      |-> a.title,
     message    |-> a.message,
     details    |-> a.details,
     timestamp  |-> isoformat(a.timestamp)]

\* a JSON object: the members of a dict, one <<key, value>> pair per key
RECURSIVE JsonObject(_)
JsonObject(d) ==
    IF DOMAIN d = {} THEN <<>>
    ELSE LET k == CHOOSE x \in DOMAIN d : TRUE
         IN  <<<<k, d[k]>>>> \o JsonObject([x \in (DOMAIN d) \ {k} |-> d[x]])

\* the dict read back from a JSON object
JsonDict(members) ==
    [k \in {members[i][1] : i \in 1..Len(members)} |->
        members[CHOOSE i \in 1..Len(members) : members[i][1] = k][2]]

\* json.dump of the document save() builds
JsonDump(data) ==
    [generated_at |-> data.generated_at,
     summary      |-> JsonObject(data.summary),
     alerts       |-> [i \in 1..Len(data.alerts) |->
                          JsonObject([data.alerts[i] EXCEPT
                                          !.details = JsonObject(data.alerts[i].details)])]]

\* json.load of that document
JsonLoad(text) ==
    [generated_at |-> text.generated_at,
     summary      |-> JsonDict(text.summary),
     alerts       |-> [i \in 1..Len(text.alerts) |->
                          LET d == JsonDict(text.alerts[i])
                          IN  [d EXCEPT !.details = JsonDict(d.details)]]]

\* the document AlertManager.save writes
SavedDocument(alerts, clock) ==
    JsonDump([generated_at |-> isoformat(clock),
              summary      |-> get_summary(alerts),
              alerts       |-> [i \in 1..Len(alerts) |-> to_dict(alerts[i])]])

\* the alert load() rebuilds without restoring its timestamp
RestoredAlertStampedAtLoad(alert_data, clock) ==
    Alert(alert_data.alert_type, alert_data.severity, alert_data.title,
          alert_data.message, GetD(alert_data, "details", <<>>), clock)

\* the alert AlertManager.load rebuilds from one entry of the file
RestoredAlert(alert_data, clock) ==
    [Alert(alert_data.alert_type, alert_data.severity, alert_data.title,
           alert_data.message, GetD(alert_data, "details", <<>>), clock)
        EXCEPT !.timestamp = fromisoformat(alert_data.timestamp)]

\* the list AlertManager.load rebuilds from the file
LoadedAlerts(text, clock) ==
    LET entries == GetD(JsonLoad(text), "alerts", <<>>)
    IN  [i \in 1..Len(entries) |-> RestoredAlert(entries[i], clock)]

NoFile == [exists |-> FALSE, text |-> <<>>]

----------------------------------------------------------------------------
(* BackupComparator.  A backup directory is a function from the names of the  *)
(* files it holds to their content: [ok |-> TRUE, data |-> the JSON document] *)
(* or [ok |-> FALSE] for a file json.load cannot parse.                       *)

\* BackupComparator._load_json_file
load_json_file(backup, filename) ==
    IF filename \notin DOMAIN backup THEN <<>>
    ELSE IF backup[filename].ok THEN backup[filename].data
    ELSE <<>>

\* removed, with the ids common to both backups left in
RemovedIdsWithCommon(ids1, ids2) == ids1

\* added, with the ids common to both backups left in
AddedIdsWithCommon(ids1, ids2) == ids2

\* added = ids2 - ids1
AddedIds(ids1, ids2) == ids2 \ ids1

\* removed = ids1 - ids2
RemovedIds(ids1, ids2) == ids1 \ ids2

\* common = ids1 & ids2
CommonIds(ids1, ids2) == ids1 \cap ids2

\* the `changes` dict of one field, the two values recorded the wrong way round
FieldChangeSwapped(name, old, new) ==
    IF old # new THEN [k \in {name} |-> [old |-> new, new |-> old]] ELSE <<>>

\* the `changes` dict of one field: present when the two values differ
FieldChange(name, old, new) ==
    IF old # new THEN [k \in {name} |-> [old |-> old, new |-> new]] ELSE <<>>

\* the `changes` dict compare_users builds for a common user
UserChanges(user1, user2) ==
    LET profile1 == GetD(user1, "profile", <<>>)
        profile2 == GetD(user2, "profile", <<>>)
    IN  Merge(FieldChange("deleted", Get(user1, "deleted"), Get(user2, "deleted")),
        Merge(FieldChange("is_admin", Get(user1, "is_admin"), Get(user2, "is_admin")),
        Merge(FieldChange("is_owner", Get(user1, "is_owner"), Get(user2, "is_owner")),
        Merge(FieldChange("title", Get(profile1, "title"), Get(profile2, "title")),
              FieldChange("real_name", Get(profile1, "real_name"),
                          Get(profile2, "real_name"))))))

\* the `changes` dict compare_channels builds for a common channel
ChannelChanges(ch1, ch2) ==
    LET members1 == GetD(ch1, "num_members", 0)
        members2 == GetD(ch2, "num_members", 0)
    IN  Merge(FieldChange("is_archived", Get(ch1, "is_archived"), Get(ch2, "is_archived")),
        Merge(FieldChange("name", Get(ch1, "name"), Get(ch2, "name")),
        Merge(FieldChange("topic", Get(GetD(ch1, "topic", <<>>), "value"),
                          Get(GetD(ch2, "topic", <<>>), "value")),
        Merge(FieldChange("purpose", Get(GetD(ch1, "purpose", <<>>), "value"),
                          Get(GetD(ch2, "purpose", <<>>), "value")),
              IF members1 # members2
              THEN [num_members |-> [old |-> members1, new |-> members2,
                                     diff |-> members2 - members1]]
              ELSE <<>>))))

\* the records of a dict at the identifiers of ids, ids ascending
RecordsAt(dict, ids) ==
    LET order == SetToSeq(ids) IN [i \in 1..Len(order) |-> dict[order[i]]]

\* the `stats` dict of compare_users / compare_channels
ComparisonStats(ids1, ids2, added, removed, modified) ==
    [total_before   |-> Cardinality(ids1),
     total_after    |-> Cardinality(ids2),
     added_count    |-> Cardinality(added),
     removed_count  |-> Cardinality(removed),
     modified_count |-> Len(modified)]

ModifiedUser(id, user2, changes) ==
    [id        |-> id,
     name      |-> Get(user2, "name"),
     real_name |-> Get(GetD(user2, "profile", <<>>), "real_name"),
     changes   |-> changes]

ModifiedChannel(id, ch2, changes) ==
    [id |-> id, name |-> Get(ch2, "name"), changes |-> changes]

\* BackupComparator.compare_users
compare_users(b1, b2) ==
    LET users1 == load_json_file(b1, "users.json")
        users2 == load_json_file(b2, "users.json")
        users1_dict == DictById(GetD(users1, "members", <<>>))
        users2_dict == DictById(GetD(users2, "members", <<>>))
        ids1     == DOMAIN users1_dict
        ids2     == DOMAIN users2_dict
        added    == AddedIds(ids1, ids2)
        removed  == RemovedIds(ids1, ids2)
        common   == CommonIds(ids1, ids2)
        changed  == SelectSeq(SetToSeq(common),
                        LAMBDA id : UserChanges(users1_dict[id], users2_dict[id]) # <<>>)
        modified == [i \in 1..Len(changed) |->
                        ModifiedUser(changed[i], users2_dict[changed[i]],
                                     UserChanges(users1_dict[changed[i]],
                                                 users2_dict[changed[i]]))]
    IN  [added    |-> RecordsAt(users2_dict, added),
         removed  |-> RecordsAt(users1_dict, removed),
         modified |-> modified,
         stats    |-> ComparisonStats(ids1, ids2, added, removed, modified)]

\* BackupComparator.compare_channels
compare_channels(b1, b2) ==
    LET channels1 == load_json_file(b1, "channels.json")
        channels2 == load_json_file(b2, "channels.json")
        channels1_dict == DictById(GetD(channels1, "channels", <<>>))
        channels2_dict == DictById(GetD(channels2, "channels", <<>>))
        ids1     == DOMAIN channels1_dict
        ids2     == DOMAIN channels2_dict
        added    == AddedIds(ids1, ids2)
        removed  == RemovedIds(ids1, ids2)
        common   == CommonIds(ids1, ids2)
        changed  == SelectSeq(SetToSeq(common),
                        LAMBDA id : ChannelChanges(channels1_dict[id],
                                                   channels2_dict[id]) # <<>>)
        modified == [i \in 1..Len(changed) |->
                        ModifiedChannel(changed[i], channels2_dict[changed[i]],
                                        ChannelChanges(channels1_dict[changed[i]],
                                                       channels2_dict[changed[i]]))]
    IN  [added    |-> RecordsAt(channels2_dict, added),
         removed  |-> RecordsAt(channels1_dict, removed),
         modified |-> modified,
         stats    |-> ComparisonStats(ids1, ids2, added, removed, modified)]

\* compare_files with the older count and size taken from the newer backup
compare_files_before_from_newer(b1, b2) ==
    LET files1_list == GetD(load_json_file(b1, "files_metadata.json"), "files", <<>>)
        files2_list == GetD(load_json_file(b2, "files_metadata.json"), "files", <<>>)
    IN  [stats |-> [count_before |-> Len(files2_list),
                    count_after  |-> Len(files2_list),
                    count_diff   |-> Len(files2_list) - Len(files1_list),
                    size_before  |-> TotalSize(files2_list),
                    size_after   |-> TotalSize(files2_list),
                    size_diff    |-> TotalSize(files2_list) - TotalSize(files1_list)]]

\* BackupComparator.compare_files
compare_files(b1, b2) ==
    LET files1_list == GetD(load_json_file(b1, "files_metadata.json"), "files", <<>>)
        files2_list == GetD(load_json_file(b2, "files_metadata.json"), "files", <<>>)
    IN  [stats |-> [count_before |-> Len(files1_list),
                    count_after  |-> Len(files2_list),
                    count_diff   |-> Len(files2_list) - Len(files1_list),
                    size_before  |-> TotalSize(files1_list),
                    size_after   |-> TotalSize(files2_list),
                    size_diff    |-> TotalSize(files2_list) - TotalSize(files1_list)]]

----------------------------------------------------------------------------
(* Inputs *)

\* a clock reading, on a second boundary and just after it
NowSec == 20000 * SecondsPerDay

NowChoices == {[sec |-> NowSec, usec |-> u] : u \in {0, 1}}

None == [given |-> FALSE, list |-> <<>>]

\* previous_data = None
NoData == [given |-> FALSE, dict |-> <<>>]

SomeData(d) == [given |-> TRUE, dict |-> d]

Some(l) == [given |-> TRUE, list |-> l]

\* the i-th record of a list carries the identifier i
WithIds(s) == [i \in 1..Len(s) |-> Merge([id |-> i], s[i])]

\* `updated` values around a cutoff that lies `days` days before the clock
UpdatedAround(clock, days) ==
    {0, clock.sec - days * SecondsPerDay - 1, clock.sec - days * SecondsPerDay, clock.sec}

\* user records: flags absent, deleted, bot; `updated` absent or around the cutoff
UserKinds(clock, days) ==
    LET status == {<<>>,
                   [deleted |-> TRUE, is_bot |-> FALSE],
                   [deleted |-> FALSE, is_bot |-> TRUE]}
        stamp  == {<<>>} \cup {[updated |-> t] : t \in UpdatedAround(clock, days)}
    IN  {Merge(a, b) : a \in status, b \in stamp}

\* a workspace of `total` active users of which `stale` were last updated before the cutoff
Population(stale, total, clock, days) ==
    WithIds(Repeat([deleted |-> FALSE, is_bot |-> FALSE,
                    updated |-> clock.sec - days * SecondsPerDay - 1], stale)
            \o Repeat([deleted |-> FALSE, is_bot |-> FALSE, updated |-> clock.sec],
                      total - stale))

\* no SlackScript built
RunnerIdle ==
    /\ script = <<>>
    /\ run_log = <<>>
    /\ run_pending = <<>>
    /\ run_outcome = <<>>

\* no library class is being called on its own
LibraryIdle ==
    /\ detector_arg = <<>>
    /\ RunnerIdle
    /\ api = <<>>
    /\ invocations = <<>>

\* AlertManager.__init__, no file written yet
ManagerIdle ==
    /\ mgr_alerts = <<>>
    /\ alert_file = NoFile
    /\ added_log = <<>>
    /\ answer = <<>>
    /\ saved = <<>>

\* no run of the detector recorded
NoRun == [given |-> FALSE, alerts |-> <<>>, thresholds |-> <<>>]

\* the smart_alerts script is not running
ScriptIdle ==
    /\ args = <<>>
    /\ data_file = [exists |-> FALSE]
    /\ main_alerts = None
    /\ writable = <<>>
    /\ exit_code = <<>>

\* smart_alerts.main has been started
ScriptRunning == args # <<>>

\* no comparator built
ComparatorIdle ==
    /\ backup1 = <<>>
    /\ backup2 = <<>>
    /\ report = <<>>
    /\ swapped_report = <<>>

\* no detector call in progress
DetectorIdle ==
    /\ config = <<>>
    /\ thresholds = DetectorThresholds(config)
    /\ workspace_data = <<>>
    /\ previous_data = NoData
    /\ users = <<>>
    /\ previous_users = None
    /\ channels = <<>>
    /\ previous_channels = None
    /\ files = <<>>
    /\ result = <<>>
    /\ first_result = NoRun

----------------------------------------------------------------------------
(* check_inactive_users called on its own *)

InactiveConfigs ==
    {<<>>} \cup
    {[inactive_user_threshold |-> d, inactive_user_percentage |-> p] :
        d \in {0, 1}, p \in {0, 55, 100}}

\* the scenario of 100 active users
ScenarioUsers == 100

InitInactive ==
    /\ now \in NowChoices
    /\ config \in InactiveConfigs
    /\ thresholds = DetectorThresholds(config)
    /\ workspace_data = <<>>
    /\ previous_data = NoData
    /\ users \in
         {WithIds(s) : s \in SeqsUpTo(UserKinds(now, thresholds.inactive_user_days), MaxUsers)}
         \cup UNION {{Population(i, t, now, thresholds.inactive_user_days) : i \in 0..t} :
                       t \in 1..MaxPop}
         \cup {Population(i, ScenarioUsers, now, thresholds.inactive_user_days) :
                 i \in {30, 35}}
    /\ previous_users = None
    /\ channels = <<>>
    /\ previous_channels = None
    /\ files = <<>>
    /\ pc = "ready"
    /\ result = <<>>
    /\ first_result = NoRun
    /\ ManagerIdle
    /\ ScriptIdle
    /\ LibraryIdle
    /\ ComparatorIdle

CallCheckInactiveUsers ==
    /\ pc = "ready"
    /\ result' = check_inactive_users(users, thresholds, now)
    /\ pc' = "returned"
    /\ UNCHANGED callArgs

NextInactive == CallCheckInactiveUsers

SpecInactive == InitInactive /\ [][NextInactive]_vars

----------------------------------------------------------------------------
(* Claims about check_inactive_users *)

\* user i is counted in the workspace, carries an `updated` timestamp and that
\* timestamp lies before now - inactive_user_threshold days
StaleUser(i) ==
    /\ ~("deleted" \in DOMAIN users[i] /\ users[i].deleted)
    /\ ~("is_bot" \in DOMAIN users[i] /\ users[i].is_bot)
    /\ "updated" \in DOMAIN users[i]
    /\ \/ users[i].updated + thresholds.inactive_user_days * SecondsPerDay < now.sec
       \/ /\ users[i].updated + thresholds.inactive_user_days * SecondsPerDay = now.sec
          /\ now.usec > 0

StaleUsers == {i \in 1..Len(users) : StaleUser(i)}

ActiveUsers ==
    {i \in 1..Len(users) :
        /\ ~("deleted" \in DOMAIN users[i] /\ users[i].deleted)
        /\ ~("is_bot" \in DOMAIN users[i] /\ users[i].is_bot)}

\* C1 as stated: check_inactive_users returns an alert if and only if some
\* non-deleted, non-bot user has an `updated` timestamp (any value >= 0) older
\* than now minus inactive_user_threshold days, and no alert otherwise.
C1_AlertIffStaleUser ==
    pc = "returned" =>
        /\ (StaleUsers # {} => Len(result) = 1)
        /\ (StaleUsers = {} => result = <<>>)

\* C1 amended: check_inactive_users returns exactly one alert if and only if
\* some non-deleted, non-bot user has a non-zero `updated` timestamp older than
\* now minus inactive_user_threshold days; an `updated` of 0 counts as absent.
C1_AlertIffNonZeroStaleUser ==
    pc = "returned" =>
        LET stale == {i \in StaleUsers : users[i].updated # 0}
        IN  /\ (stale # {} => Len(result) = 1 /\ result[1].alert_type = "user_activity")
            /\ (stale = {} => result = <<>>)

\* an alert was returned for a list that also holds an active user whose `updated` is 0
C1_Witness ==
    /\ pc = "returned"
    /\ Len(result) = 1
    /\ \E i \in StaleUsers : users[i].updated = 0
    /\ \E i \in StaleUsers : users[i].updated # 0

\* C2 as stated: the alert's severity is critical exactly when inactive_count
\* divided by the number of non-deleted non-bot users, times 100, is strictly
\* greater than inactive_user_percentage, and warning otherwise; 100 active
\* users at the defaults give critical (inactive_count 35) for 35 inactive and
\* warning for 30.
C2_SeverityByPercentage ==
    (pc = "returned" /\ result # <<>>) =>
        LET a == result[1]
            n == a.details.inactive_count
            t == Cardinality(ActiveUsers)
        IN  /\ a.severity = SEVERITY_CRITICAL
                 <=> n * 100 > thresholds.inactive_user_percentage * t
            /\ a.severity \in {SEVERITY_CRITICAL, SEVERITY_WARNING}
            /\ (config = <<>> /\ Len(users) = ScenarioUsers /\ Cardinality(StaleUsers) = 35)
                 => (a.severity = SEVERITY_CRITICAL /\ n = 35)
            /\ (config = <<>> /\ Len(users) = ScenarioUsers /\ Cardinality(StaleUsers) = 30)
                 => a.severity = SEVERITY_WARNING

----------------------------------------------------------------------------
(* check_recent_deactivations called on its own *)

DeactivationConfigs == {<<>>} \cup {[deactivation_spike |-> k] : k \in {0, 1, 2}}

\* `recent` users deleted inside the window, `old` deleted before it, `active` not deleted
DeactivationPopulation(recent, old, active, clock) ==
    WithIds(Repeat([deleted |-> TRUE, updated |-> clock.sec - DefaultDays * SecondsPerDay],
                   recent)
            \o Repeat([deleted |-> TRUE,
                       updated |-> clock.sec - DefaultDays * SecondsPerDay - 1], old)
            \o Repeat([deleted |-> FALSE, updated |-> clock.sec], active))

InitDeactivations ==
    /\ now \in NowChoices
    /\ config \in DeactivationConfigs
    /\ thresholds = DetectorThresholds(config)
    /\ workspace_data = <<>>
    /\ previous_data = NoData
    /\ users \in
         {WithIds(s) : s \in SeqsUpTo(UserKinds(now, DefaultDays), MaxUsers)}
         \cup {DeactivationPopulation(r, o, a, now) :
                 r \in 0..MaxPop, o \in 0..1, a \in 0..1}
    /\ previous_users = None
    /\ channels = <<>>
    /\ previous_channels = None
    /\ files = <<>>
    /\ pc = "ready"
    /\ result = <<>>
    /\ first_result = NoRun
    /\ ManagerIdle
    /\ ScriptIdle
    /\ LibraryIdle
    /\ ComparatorIdle

CallCheckRecentDeactivations ==
    /\ pc = "ready"
    /\ result' = check_recent_deactivations(users, thresholds, now, DefaultDays)
    /\ pc' = "returned"
    /\ UNCHANGED callArgs

NextDeactivations == CallCheckRecentDeactivations

SpecDeactivations == InitDeactivations /\ [][NextDeactivations]_vars

\* the deleted users whose `updated` time is not before now - 7 days
RecentlyDeactivated ==
    {i \in 1..Len(users) :
        /\ "deleted" \in DOMAIN users[i] /\ users[i].deleted
        /\ "updated" \in DOMAIN users[i]
        /\ \/ users[i].updated + DefaultDays * SecondsPerDay > now.sec
           \/ /\ users[i].updated + DefaultDays * SecondsPerDay = now.sec
              /\ now.usec = 0}

\* C5: check_recent_deactivations returns exactly one critical
\* user_deactivation alert when the number of deleted users updated within the
\* trailing 7 days is >= deactivation_spike, and no alert when it is smaller
\* (default 5: five give one alert, four give none).
C5_DeactivationSpike ==
    pc = "returned" =>
        LET n == Cardinality(RecentlyDeactivated)
        IN  /\ n >= thresholds.deactivation_spike_count =>
                  /\ Len(result) = 1
                  /\ result[1].alert_type = "user_deactivation"
                  /\ result[1].severity = SEVERITY_CRITICAL
            /\ n < thresholds.deactivation_spike_count => result = <<>>
            /\ (config = <<>> /\ n = 5) => Len(result) = 1
            /\ (config = <<>> /\ n = 4) => result = <<>>

\* five deactivations at the default threshold gave the alert
C5_Witness ==
    /\ pc = "returned"
    /\ config = <<>>
    /\ Cardinality(RecentlyDeactivated) = 5
    /\ Len(result) = 1

----------------------------------------------------------------------------
(* check_admin_changes called on its own *)

\* the snapshots over the identifiers 1..MaxIds: every subset of identifiers,
\* every choice of record for each, listed by ascending identifier
Snapshots(kinds) ==
    UNION {{[n \in 1..Cardinality(S) |->
                 Merge([id |-> SetToSeq(S)[n], name |-> SetToSeq(S)[n]], f[SetToSeq(S)[n]])] :
               f \in [S -> kinds]} :
           S \in SUBSET (1..MaxIds)}

\* role flags absent, present in each combination, and a deleted owner
AdminKinds ==
    {<<>>,
     [is_admin |-> FALSE, is_owner |-> FALSE],
     [is_admin |-> TRUE,  is_owner |-> FALSE],
     [is_admin |-> FALSE, is_owner |-> TRUE],
     [is_admin |-> TRUE,  is_owner |-> TRUE],
     [is_admin |-> FALSE, is_owner |-> TRUE, deleted |-> TRUE]}

AdminConfigs == {<<>>, [admin_change_spike |-> 1]}

InitAdmin ==
    /\ now = [sec |-> NowSec, usec |-> 0]
    /\ config \in AdminConfigs
    /\ thresholds = DetectorThresholds(config)
    /\ workspace_data = <<>>
    /\ previous_data = NoData
    /\ users \in Snapshots(AdminKinds)
    /\ previous_users \in {None} \cup {Some(l) : l \in Snapshots(AdminKinds)}
    /\ channels = <<>>
    /\ previous_channels = None
    /\ files = <<>>
    /\ pc = "ready"
    /\ result = <<>>
    /\ first_result = NoRun
    /\ ManagerIdle
    /\ ScriptIdle
    /\ LibraryIdle
    /\ ComparatorIdle

CallCheckAdminChanges ==
    /\ pc = "ready"
    /\ result' = check_admin_changes(users, previous_users, thresholds, now)
    /\ pc' = "returned"
    /\ UNCHANGED callArgs

NextAdmin == CallCheckAdminChanges

SpecAdmin == InitAdmin /\ [][NextAdmin]_vars

\* the non-deleted users flagged is_owner
ActiveOwners ==
    {i \in 1..Len(users) :
        /\ "is_owner" \in DOMAIN users[i] /\ users[i].is_owner
        /\ ~("deleted" \in DOMAIN users[i] /\ users[i].deleted)}

\* the alerts of the owner sub-check among the returned ones
OwnerSubCheckAlerts ==
    SelectSeq(result, LAMBDA a : a.title \in {"No Workspace Owners", "Single Workspace Owner"})

\* C3: the owner sub-check yields exactly one critical permissions alert, with
\* no `users` detail, when no non-deleted user is an owner, exactly one warning
\* permissions alert when exactly one is, and no alert when two or more are.
C3_OwnerBoundary ==
    pc = "returned" =>
        LET n == Cardinality(ActiveOwners)
            o == OwnerSubCheckAlerts
        IN  /\ n = 0 => /\ Len(o) = 1
                        /\ o[1].severity = SEVERITY_CRITICAL
                        /\ o[1].alert_type = "permissions"
                        /\ "users" \notin DOMAIN o[1].details
            /\ n = 1 => /\ Len(o) = 1
                        /\ o[1].severity = SEVERITY_WARNING
                        /\ o[1].alert_type = "permissions"
            /\ n >= 2 => o = <<>>

\* a deleted owner next to one active owner: the warning was returned
C3_Witness ==
    /\ pc = "returned"
    /\ Cardinality(ActiveOwners) = 1
    /\ \E i \in 1..Len(users) : "deleted" \in DOMAIN users[i] /\ users[i].deleted
    /\ Len(OwnerSubCheckAlerts) = 1
    /\ OwnerSubCheckAlerts[1].severity = SEVERITY_WARNING

\* the value of a role flag of user id in a snapshot, false when the user or
\* the flag is missing
RoleIn(list, id, key) ==
    \E i \in 1..Len(list) : list[i].id = id /\ key \in DOMAIN list[i] /\ list[i][key]

\* the flips between the previous and the current snapshot
Flips ==
    {<<id, role>> \in
        ({users[i].id : i \in 1..Len(users)}
           \cup {previous_users.list[i].id : i \in 1..Len(previous_users.list)})
        \X {"admin", "owner"} :
        LET key == IF role = "admin" THEN "is_admin" ELSE "is_owner"
        IN  RoleIn(previous_users.list, id, key) # RoleIn(users, id, key)}

ChangeSubCheckAlerts ==
    SelectSeq(result, LAMBDA a : a.title = "Multiple Permission Changes")

\* C4 as stated: with a previous user list supplied, check_admin_changes
\* returns exactly one 'Multiple Permission Changes' warning if and only if
\* the number of flips is >= admin_change_spike, a missing user or flag
\* counting as false; the alert lists exactly the flips, granted when the
\* current value is true and revoked otherwise.
C4_PermissionChanges ==
    (pc = "returned" /\ previous_users.given) =>
        LET c == ChangeSubCheckAlerts
        IN  /\ Cardinality(Flips) >= thresholds.admin_change_spike =>
                  /\ Len(c) = 1
                  /\ c[1].severity = SEVERITY_WARNING
                  /\ {<<e.user_id, e.role>> :
                         e \in {c[1].details.changes[k] :
                                  k \in 1..Len(c[1].details.changes)}} = Flips
                  /\ Len(c[1].details.changes) = Cardinality(Flips)
                  /\ \A k \in 1..Len(c[1].details.changes) :
                        LET e == c[1].details.changes[k]
                        IN  e.change = "granted"
                              <=> RoleIn(users, e.user_id,
                                         IF e.role = "admin" THEN "is_admin" ELSE "is_owner")
            /\ Cardinality(Flips) < thresholds.admin_change_spike => c = <<>>

----------------------------------------------------------------------------
(* check_storage called on its own *)

StorageConfigs ==
    {<<>>} \cup
    {[storage_warning_gb |-> w, storage_critical_gb |-> c] :
        <<w, c>> \in {<<1, 2>>, <<2, 1>>, <<1, 1>>}}

Abs(n) == IF n < 0 THEN 0 - n ELSE n

\* file records: no size, one unit, one unit short of the warning threshold,
\* the distance between the two thresholds
FileKinds(th) ==
    {<<>>} \cup
    {[size |-> z] : z \in {1, th.storage_warning_gb * UnitsPerGB - 1,
                           Abs(th.storage_critical_gb - th.storage_warning_gb) * UnitsPerGB}}

InitStorage ==
    /\ now = [sec |-> NowSec, usec |-> 0]
    /\ config \in StorageConfigs
    /\ thresholds = DetectorThresholds(config)
    /\ workspace_data = <<>>
    /\ previous_data = NoData
    /\ users = <<>>
    /\ previous_users = None
    /\ channels = <<>>
    /\ previous_channels = None
    /\ files \in SeqsUpTo(FileKinds(thresholds), MaxFiles)
    /\ pc = "ready"
    /\ result = <<>>
    /\ first_result = NoRun
    /\ ManagerIdle
    /\ ScriptIdle
    /\ LibraryIdle
    /\ ComparatorIdle

CallCheckStorage ==
    /\ pc = "ready"
    /\ result' = check_storage(files, thresholds, now)
    /\ pc' = "returned"
    /\ UNCHANGED callArgs

NextStorage == CallCheckStorage

SpecStorage == InitStorage /\ [][NextStorage]_vars

\* the total size of the files that carry a size
RECURSIVE SizeSum(_)
SizeSum(n) ==
    IF n = 0 THEN 0
    ELSE SizeSum(n - 1) + (IF "size" \in DOMAIN files[n] THEN files[n].size ELSE 0)

\* C6: check_storage never returns both a warning and a critical alert: exactly
\* one critical alert when the total is >= storage_critical_gb (a total equal
\* to the critical threshold is critical), otherwise exactly one warning alert
\* when the total is >= storage_warning_gb, otherwise no alert.
C6_StorageExclusive ==
    pc = "returned" =>
        LET total    == SizeSum(Len(files))
            critical == thresholds.storage_critical_gb * UnitsPerGB
            warning  == thresholds.storage_warning_gb * UnitsPerGB
        IN  /\ Len(result) <= 1
            /\ total >= critical =>
                  Len(result) = 1 /\ result[1].severity = SEVERITY_CRITICAL
                                  /\ result[1].alert_type = "storage"
            /\ (total < critical /\ total >= warning) =>
                  Len(result) = 1 /\ result[1].severity = SEVERITY_WARNING
                                  /\ result[1].alert_type = "storage"
            /\ (total < critical /\ total < warning) => result = <<>>

\* a total exactly on the critical threshold, above the warning threshold
C6_Witness ==
    /\ pc = "returned"
    /\ thresholds.storage_warning_gb < thresholds.storage_critical_gb
    /\ SizeSum(Len(files)) = thresholds.storage_critical_gb * UnitsPerGB
    /\ Len(result) = 1
    /\ result[1].severity = SEVERITY_CRITICAL

----------------------------------------------------------------------------
(* check_archived_channels called on its own *)

ChannelKinds == {<<>>, [is_archived |-> FALSE], [is_archived |-> TRUE]}

ArchiveConfigs == {<<>>} \cup {[channel_archive_spike |-> k] : k \in {0, 1, 2}}

\* n channels, archived or not
ChannelPopulation(n, archived) ==
    WithIds(Repeat([name |-> 0, is_archived |-> archived], n))

InitArchive ==
    /\ now = [sec |-> NowSec, usec |-> 0]
    /\ config \in ArchiveConfigs
    /\ thresholds = DetectorThresholds(config)
    /\ workspace_data = <<>>
    /\ previous_data = NoData
    /\ users = <<>>
    /\ previous_users = None
    /\ \/ /\ channels \in Snapshots(ChannelKinds)
          /\ previous_channels \in {None} \cup {Some(l) : l \in Snapshots(ChannelKinds)}
       \/ /\ channels \in {ChannelPopulation(n, TRUE) : n \in 0..MaxPop}
          /\ previous_channels \in {Some(ChannelPopulation(n, FALSE)) : n \in 0..1}
    /\ files = <<>>
    /\ pc = "ready"
    /\ result = <<>>
    /\ first_result = NoRun
    /\ ManagerIdle
    /\ ScriptIdle
    /\ LibraryIdle
    /\ ComparatorIdle

CallCheckArchivedChannels ==
    /\ pc = "ready"
    /\ result' = check_archived_channels(channels, previous_channels, thresholds, now)
    /\ pc' = "returned"
    /\ UNCHANGED callArgs

NextArchive == CallCheckArchivedChannels

SpecArchive == InitArchive /\ [][NextArchive]_vars

\* the channel ids archived now and not archived, or absent, before
NewlyArchivedIds ==
    {id \in {channels[i].id : i \in 1..Len(channels)} :
        /\ \E i \in 1..Len(channels) :
              /\ channels[i].id = id
              /\ "is_archived" \in DOMAIN channels[i] /\ channels[i].is_archived
        /\ ~\E j \in 1..Len(previous_channels.list) :
              /\ previous_channels.list[j].id = id
              /\ "is_archived" \in DOMAIN previous_channels.list[j]
              /\ previous_channels.list[j].is_archived}

\* C7 as stated: for every previous channel list that is supplied,
\* check_archived_channels returns exactly one channel_management warning if
\* and only if the number of newly archived channel ids is >=
\* channel_archive_spike; with no previous snapshot it returns nothing.
C7_ArchiveSpike ==
    pc = "returned" =>
        /\ previous_channels.given =>
              /\ Cardinality(NewlyArchivedIds) >= thresholds.channel_archive_spike =>
                    /\ Len(result) = 1
                    /\ result[1].alert_type = "channel_management"
                    /\ result[1].severity = SEVERITY_WARNING
              /\ Cardinality(NewlyArchivedIds) < thresholds.channel_archive_spike =>
                    result = <<>>
        /\ ~previous_channels.given => result = <<>>

----------------------------------------------------------------------------
(* run_all_checks, one step per statement.  A check that raises leaves the  *)
(* run at "raised": the exception propagates and no list is returned.       *)

\* the entry of a run whose all_alerts is not a fresh list
RunAllEnterKeepingAlerts ==
    /\ pc = "ready"
    /\ result' = result
    /\ users' = GetD(workspace_data, "users", <<>>)
    /\ channels' = GetD(workspace_data, "channels", <<>>)
    /\ files' = GetD(workspace_data, "files", <<>>)
    /\ previous_users' = IF TruthyData(previous_data)
                         THEN Some(GetD(previous_data.dict, "users", <<>>)) ELSE None
    /\ previous_channels' = IF TruthyData(previous_data)
                            THEN Some(GetD(previous_data.dict, "channels", <<>>)) ELSE None
    /\ pc' = "check_inactive_users"
    /\ UNCHANGED <<libVars, now, config, thresholds, workspace_data, previous_data, first_result,
                   managerVars, comparatorVars, scriptVars>>

RunAllEnter ==
    /\ pc = "ready"
    /\ result' = <<>>
    /\ users' = GetD(workspace_data, "users", <<>>)
    /\ channels' = GetD(workspace_data, "channels", <<>>)
    /\ files' = GetD(workspace_data, "files", <<>>)
    /\ previous_users' = IF TruthyData(previous_data)
                         THEN Some(GetD(previous_data.dict, "users", <<>>)) ELSE None
    /\ previous_channels' = IF TruthyData(previous_data)
                            THEN Some(GetD(previous_data.dict, "channels", <<>>)) ELSE None
    /\ pc' = "check_inactive_users"
    /\ UNCHANGED <<libVars, now, config, thresholds, workspace_data, previous_data, first_result,
                   managerVars, comparatorVars, scriptVars>>

RunInactiveUsers ==
    /\ pc = "check_inactive_users"
    /\ result' = Extend(result, check_inactive_users(users, thresholds, now))
    /\ pc' = "check_recent_deactivations"
    /\ UNCHANGED callArgs

RunRecentDeactivations ==
    /\ pc = "check_recent_deactivations"
    /\ result' = Extend(result, check_recent_deactivations(users, thresholds, now, DefaultDays))
    /\ pc' = "check_admin_changes"
    /\ UNCHANGED callArgs

RunAdminChanges ==
    /\ pc = "check_admin_changes"
    /\ IF KeyErrorInAdminChanges(users, previous_users)
       THEN /\ result' = <<>>
            /\ pc' = "raised"
       ELSE /\ result' = Extend(result, check_admin_changes(users, previous_users,
                                                            thresholds, now))
            /\ pc' = "check_storage"
    /\ UNCHANGED callArgs

RunStorage ==
    /\ pc = "check_storage"
    /\ result' = Extend(result, check_storage(files, thresholds, now))
    /\ pc' = "check_guest_accounts"
    /\ UNCHANGED callArgs

RunGuestAccounts ==
    /\ pc = "check_guest_accounts"
    /\ result' = Extend(result, check_guest_accounts(users, thresholds, now))
    /\ pc' = "check_archived_channels"
    /\ UNCHANGED callArgs

RunArchivedChannels ==
    /\ pc = "check_archived_channels"
    /\ IF KeyErrorInArchivedChannels(channels, previous_channels)
       THEN /\ result' = <<>>
            /\ pc' = "raised"
       ELSE /\ result' = Extend(result, check_archived_channels(channels, previous_channels,
                                                                thresholds, now))
            /\ pc' = "check_external_sharing"
    /\ UNCHANGED callArgs

RunExternalSharing ==
    /\ pc = "check_external_sharing"
    /\ IF KeyErrorInExternalSharing(channels, thresholds)
       THEN /\ result' = <<>>
            /\ pc' = "raised"
       ELSE /\ result' = Extend(result, check_external_sharing(channels, thresholds, now))
            /\ pc' = "returned"
    /\ UNCHANGED callArgs

\* every threshold at its most sensitive
SensitiveConfig ==
    [inactive_user_threshold |-> 1, inactive_user_percentage |-> 0,
     storage_warning_gb |-> 1, storage_critical_gb |-> 2,
     deactivation_spike |-> 1, admin_change_spike |-> 1,
     channel_archive_spike |-> 1, guest_percentage |-> 0,
     external_sharing_limit |-> 0]

\* a stale guest who is admin and owner; a user deleted just now
RunAllUserKinds(clock, days) ==
    {[updated |-> clock.sec - days * SecondsPerDay - 1,
      is_admin |-> TRUE, is_owner |-> TRUE, is_restricted |-> TRUE],
     [deleted |-> TRUE, updated |-> clock.sec, is_admin |-> FALSE, is_owner |-> FALSE]}

RunAllChannelKinds ==
    {[is_archived |-> TRUE], [is_archived |-> FALSE, is_ext_shared |-> TRUE]}

RunAllPrevious ==
    {NoData,
     SomeData(<<>>),
     SomeData([users    |-> <<[id |-> 1, name |-> 1, is_admin |-> FALSE, is_owner |-> FALSE]>>,
               channels |-> <<[id |-> 1, name |-> 1, is_archived |-> FALSE]>>])}

InitRunAll ==
    /\ now = [sec |-> NowSec, usec |-> 0]
    /\ config \in {<<>>, SensitiveConfig}
    /\ thresholds = DetectorThresholds(config)
    /\ \E us \in Snapshots(RunAllUserKinds(now, thresholds.inactive_user_days)),
          cs \in Snapshots(RunAllChannelKinds) :
          workspace_data \in
             {[users |-> us, channels |-> cs],
              [users |-> us, channels |-> cs,
               files |-> <<[size |-> thresholds.storage_critical_gb * UnitsPerGB]>>]}
    /\ previous_data \in RunAllPrevious
    /\ users = <<>>
    /\ previous_users = None
    /\ channels = <<>>
    /\ previous_channels = None
    /\ files = <<>>
    /\ pc = "ready"
    /\ result = <<>>
    /\ first_result = NoRun
    /\ ManagerIdle
    /\ ScriptIdle
    /\ LibraryIdle
    /\ ComparatorIdle

NextRunAll ==
    \/ RunAllEnter
    \/ RunInactiveUsers
    \/ RunRecentDeactivations
    \/ RunAdminChanges
    \/ RunStorage
    \/ RunGuestAccounts
    \/ RunArchivedChannels
    \/ RunExternalSharing

SpecRunAll == InitRunAll /\ [][NextRunAll]_vars

\* the position, in the fixed order, of the check that emits an alert of this title
CheckRank(title) ==
    CASE title = "Inactive Users Detected"           -> 1
      [] title = "Unusual Deactivation Spike"        -> 2
      [] title \in {"No Workspace Owners", "Single Workspace Owner",
                    "Multiple Permission Changes"}   -> 3
      [] title \in {"Critical Storage Usage", "High Storage Usage"} -> 4
      [] title = "High Guest Account Percentage"     -> 5
      [] title = "Channel Archival Spike"            -> 6
      [] title = "Multiple External Shared Channels" -> 7

\* the position of the check that runs at a program counter
PcRank(p) ==
    CASE p = "ready"                      -> 0
      [] p = "check_inactive_users"       -> 1
      [] p = "check_recent_deactivations" -> 2
      [] p = "check_admin_changes"        -> 3
      [] p = "check_storage"              -> 4
      [] p = "check_guest_accounts"       -> 5
      [] p = "check_archived_channels"    -> 6
      [] p = "check_external_sharing"     -> 7
      [] p = "returned"                   -> 8

\* what check number k returns on the arguments of the run
OutputOfCheck(k) ==
    CASE k = 1 -> check_inactive_users(users, thresholds, now)
      [] k = 2 -> check_recent_deactivations(users, thresholds, now, DefaultDays)
      [] k = 3 -> check_admin_changes(users, previous_users, thresholds, now)
      [] k = 4 -> check_storage(files, thresholds, now)
      [] k = 5 -> check_guest_accounts(users, thresholds, now)
      [] k = 6 -> check_archived_channels(channels, previous_channels, thresholds, now)
      [] k = 7 -> check_external_sharing(channels, thresholds, now)

\* C8: run_all_checks runs the seven checks in the fixed order and its result
\* is the concatenation of their outputs in that order: of any two alerts the
\* one of the earlier check comes first, and when the run is at check k the
\* list holds exactly the alerts of the checks before k, none dropped, added or
\* reordered.
C8_FixedOrderConcatenation ==
    pc # "ready" =>
        /\ \A i, j \in 1..Len(result) :
              i < j => CheckRank(result[i].title) <= CheckRank(result[j].title)
        /\ \A k \in 1..7 :
              SelectSeq(result, LAMBDA a : CheckRank(a.title) = k)
                 = IF k < PcRank(pc) THEN OutputOfCheck(k) ELSE <<>>

\* a finished run whose result holds alerts of at least four different checks
C8_Witness ==
    /\ pc = "returned"
    /\ Cardinality({CheckRank(result[i].title) : i \in 1..Len(result)}) >= 4
    /\ \E i \in 1..Len(result) : result[i].title = "Multiple Permission Changes"

----------------------------------------------------------------------------
(* AlertManager: alerts are added, saved to the file and loaded from it *)

\* the clock readings of a run: on a second, one microsecond later, the next second
ClockReadings == {[sec |-> NowSec, usec |-> 0], [sec |-> NowSec, usec |-> 1],
                  [sec |-> NowSec + 1, usec |-> 0]}

\* alerts as the checks build them, and one built without details
AlertChoices(clock) ==
    {Alert("permissions", SEVERITY_CRITICAL, "No Workspace Owners",
           [text |-> "No active workspace owners detected", args |-> <<>>],
           [owner_count |-> 0], clock),
     Alert("security", SEVERITY_INFO, "Multiple External Shared Channels",
           [text |-> "{} channels are shared with external workspaces", args |-> <<1>>],
           [external_count |-> 1, threshold |-> 0,
            channels |-> <<[id |-> 1, name |-> <<>>]>>], clock),
     Alert("permissions", SEVERITY_WARNING, "Single Workspace Owner",
           [text |-> "Only one workspace owner", args |-> <<>>],
           [owner_count |-> 1], clock),
     Alert("custom", SEVERITY_WARNING, "Custom", [text |-> "custom", args |-> <<>>],
           <<>>, clock)}

InitManager ==
    /\ now = [sec |-> NowSec, usec |-> 0]
    /\ DetectorIdle
    /\ ManagerIdle
    /\ ScriptIdle
    /\ LibraryIdle
    /\ ComparatorIdle
    /\ pc = "building"

\* the clock advances between two statements
ClockTick ==
    /\ pc \in {"building", "saved"}
    /\ \E t \in ClockReadings : DtLess(now, t) /\ now' = t
    /\ UNCHANGED <<libVars, detectorVars, comparatorVars, scriptVars, managerVars, pc>>

\* add_alert(Alert(...))
AddAlert ==
    /\ pc = "building"
    /\ Len(mgr_alerts) < MaxAlerts
    /\ \E a \in AlertChoices(now) :
          /\ mgr_alerts' = add_alert(mgr_alerts, a)
          /\ added_log' = Append(added_log, a)
    /\ UNCHANGED <<libVars, now, detectorVars, comparatorVars, scriptVars, alert_file, answer, saved, pc>>

\* add_alerts(alerts) with the alerts a detector run returned
AddAlerts ==
    /\ pc = "building"
    /\ \E l \in SeqsUpTo(AlertChoices(now), 2) :
          /\ Len(mgr_alerts) + Len(l) <= MaxAlerts
          /\ mgr_alerts' = add_alerts(mgr_alerts, l)
          /\ added_log' = added_log \o l
    /\ UNCHANGED <<libVars, now, detectorVars, comparatorVars, scriptVars, alert_file, answer, saved, pc>>

\* save()
Save ==
    /\ pc = "building"
    /\ alert_file' = [exists |-> TRUE, text |-> SavedDocument(mgr_alerts, now)]
    /\ saved' = mgr_alerts
    /\ pc' = "saved"
    /\ UNCHANGED <<libVars, now, detectorVars, comparatorVars, scriptVars, mgr_alerts, added_log, answer>>

\* AlertManager(alert_file): another manager on the same file
NewManager ==
    /\ pc = "saved"
    /\ mgr_alerts # <<>>
    /\ mgr_alerts' = <<>>
    /\ added_log' = <<>>
    /\ UNCHANGED <<libVars, now, detectorVars, comparatorVars, scriptVars, alert_file, answer, saved, pc>>

\* load()
Load ==
    /\ pc \in {"building", "saved"}
    /\ mgr_alerts' = IF alert_file.exists THEN LoadedAlerts(alert_file.text, now)
                     ELSE mgr_alerts
    /\ pc' = "loaded"
    /\ UNCHANGED <<libVars, now, detectorVars, comparatorVars, scriptVars, alert_file, added_log, answer,
                   saved>>

\* the filters a caller passes: none, a severity, an alert type
SeverityFilters == {<<>>, <<"">>, <<SEVERITY_INFO>>, <<SEVERITY_WARNING>>, <<SEVERITY_CRITICAL>>}
TypeFilters == {<<>>, <<"">>, <<"permissions">>, <<"security">>, <<"storage">>}

\* get_alerts(severity, alert_type)
GetAlerts ==
    /\ pc \in {"building", "saved", "loaded"}
    /\ \E severity \in SeverityFilters, alert_type \in TypeFilters :
          answer' = [call       |-> "get_alerts",
                     severity   |-> severity,
                     alert_type |-> alert_type,
                     held       |-> mgr_alerts,
                     value      |-> get_alerts(mgr_alerts, severity, alert_type)]
    /\ pc' = "answered"
    /\ UNCHANGED <<libVars, now, detectorVars, comparatorVars, scriptVars, mgr_alerts, alert_file,
                   added_log, saved>>

\* get_summary()
GetSummary ==
    /\ pc \in {"building", "saved", "loaded"}
    /\ answer' = [call  |-> "get_summary",
                  held  |-> mgr_alerts,
                  value |-> get_summary(mgr_alerts)]
    /\ pc' = "answered"
    /\ UNCHANGED <<libVars, now, detectorVars, comparatorVars, scriptVars, mgr_alerts, alert_file,
                   added_log, saved>>

NextManager ==
    \/ ClockTick
    \/ AddAlert
    \/ AddAlerts
    \/ Save
    \/ NewManager
    \/ Load
    \/ GetAlerts
    \/ GetSummary

SpecManager == InitManager /\ [][NextManager]_vars

\* C9: save() followed by load() on the same file yields a manager whose
\* alerts are in the same order and have the same alert_type, severity, title,
\* message, details and timestamp as before the save; the restored timestamp
\* is the creation time, not the time of the load.
C9_SaveLoadRoundTrip ==
    (pc = "loaded" /\ alert_file.exists) =>
        /\ Len(mgr_alerts) = Len(saved)
        /\ \A i \in 1..Len(saved) :
              /\ mgr_alerts[i].alert_type = saved[i].alert_type
              /\ mgr_alerts[i].severity = saved[i].severity
              /\ mgr_alerts[i].title = saved[i].title
              /\ mgr_alerts[i].message = saved[i].message
              /\ mgr_alerts[i].details = saved[i].details
              /\ mgr_alerts[i].timestamp = saved[i].timestamp

\* two alerts created at different times, one off the second boundary, were
\* saved and loaded later by a fresh manager
C9_Witness ==
    /\ pc = "loaded"
    /\ alert_file.exists
    /\ Len(saved) = 2
    /\ Len(mgr_alerts) = 2
    /\ saved[1].timestamp # saved[2].timestamp
    /\ \E i \in 1..2 : saved[i].timestamp.usec # 0
    /\ \A i \in 1..2 : DtLess(saved[i].timestamp, now)
    /\ \E i \in 1..2 : saved[i].details # <<>>

----------------------------------------------------------------------------
(* BackupComparator.generate_report on two backups, in both directions *)

ComparedUserKinds ==
    <<[name |-> 1, deleted |-> FALSE, is_admin |-> FALSE, is_owner |-> FALSE,
       profile |-> [title |-> 1, real_name |-> 1]],
      [name |-> 1, deleted |-> FALSE, is_admin |-> TRUE, is_owner |-> FALSE,
       profile |-> [title |-> 2, real_name |-> 1]]>>

ComparedChannelKinds ==
    <<[name |-> 1, is_archived |-> FALSE, num_members |-> 3],
      [name |-> 2, is_archived |-> TRUE, num_members |-> 1,
       topic |-> [value |-> 1]]>>

\* the backup full of the records f assigns to the identifiers in S
BackupOf(S, f) ==
    [k \in {"users.json", "channels.json", "files_metadata.json"} |->
        [ok   |-> TRUE,
         data |-> CASE k = "users.json" ->
                         [members |-> [n \in 1..Cardinality(S) |->
                              Merge([id |-> SetToSeq(S)[n]],
                                    ComparedUserKinds[f[SetToSeq(S)[n]]])]]
                    [] k = "channels.json" ->
                         [channels |-> [n \in 1..Cardinality(S) |->
                              Merge([id |-> SetToSeq(S)[n]],
                                    ComparedChannelKinds[f[SetToSeq(S)[n]]])]]
                    [] k = "files_metadata.json" ->
                         [files |-> [n \in 1..Cardinality(S) |->
                              [size |-> f[SetToSeq(S)[n]]]]]]]

\* backups: complete ones, an empty directory, one with an unreadable
\* users.json, one whose documents lack their list
BackupChoices ==
    UNION {{BackupOf(S, f) : f \in [S -> {1, 2}]} : S \in SUBSET (1..MaxBackupIds)}
    \cup {<<>>,
          [BackupOf({1}, [i \in {1} |-> 1]) EXCEPT !["users.json"] = [ok |-> FALSE]],
          [k \in {"users.json", "channels.json", "files_metadata.json"} |-> [ok |-> FALSE]],
          [k \in {"users.json", "channels.json"} |-> [ok |-> TRUE, data |-> <<>>]]}

InitCompare ==
    /\ now = [sec |-> NowSec, usec |-> 0]
    /\ DetectorIdle
    /\ ManagerIdle
    /\ ScriptIdle
    /\ LibraryIdle
    /\ backup1 \in BackupChoices
    /\ backup2 \in BackupChoices
    /\ report = <<>>
    /\ swapped_report = <<>>
    /\ pc = "compare_users"

\* 'users': self.compare_users(), by the comparator and by the swapped one
CompareUsers ==
    /\ pc = "compare_users"
    /\ report' = [users |-> compare_users(backup1, backup2)]
    /\ swapped_report' = [users |-> compare_users(backup2, backup1)]
    /\ pc' = "compare_channels"
    /\ UNCHANGED <<libVars, now, detectorVars, managerVars, scriptVars, backup1, backup2>>

\* 'channels': self.compare_channels()
CompareChannels ==
    /\ pc = "compare_channels"
    /\ report' = Merge(report, [channels |-> compare_channels(backup1, backup2)])
    /\ swapped_report' =
          Merge(swapped_report, [channels |-> compare_channels(backup2, backup1)])
    /\ pc' = "compare_files"
    /\ UNCHANGED <<libVars, now, detectorVars, managerVars, scriptVars, backup1, backup2>>

\* 'files': self.compare_files(), and the report is returned
CompareFiles ==
    /\ pc = "compare_files"
    /\ report' = Merge(report, [files |-> compare_files(backup1, backup2)])
    /\ swapped_report' = Merge(swapped_report, [files |-> compare_files(backup2, backup1)])
    /\ pc' = "reported"
    /\ UNCHANGED <<libVars, now, detectorVars, managerVars, scriptVars, backup1, backup2>>

NextCompare ==
    \/ CompareUsers
    \/ CompareChannels
    \/ CompareFiles

SpecCompare == InitCompare /\ [][NextCompare]_vars

\* the records of a list, as a set
RecordsOf(l) == {l[i] : i \in 1..Len(l)}

\* the ids of the records a backup file lists under a key
IdsIn(backup, filename, key) ==
    IF filename \in DOMAIN backup /\ backup[filename].ok
       /\ key \in DOMAIN backup[filename].data
    THEN {backup[filename].data[key][i].id : i \in 1..Len(backup[filename].data[key])}
    ELSE {}

\* C10: the users (and channels) reported as added when comparing A to B are
\* exactly those reported as removed when comparing B to A, and those removed
\* from A to B exactly those added from B to A; added are the ids of the newer
\* backup that the older lacks, removed the ids of the older that the newer lacks.
C10_ComparatorSymmetry ==
    pc = "reported" =>
        /\ \A k \in {"users", "channels"} :
              /\ RecordsOf(report[k].added) = RecordsOf(swapped_report[k].removed)
              /\ RecordsOf(report[k].removed) = RecordsOf(swapped_report[k].added)
        /\ {r.id : r \in RecordsOf(report.users.added)}
              = IdsIn(backup2, "users.json", "members") \ IdsIn(backup1, "users.json", "members")
        /\ {r.id : r \in RecordsOf(report.users.removed)}
              = IdsIn(backup1, "users.json", "members") \ IdsIn(backup2, "users.json", "members")
        /\ {r.id : r \in RecordsOf(report.channels.added)}
              = IdsIn(backup2, "channels.json", "channels")
                   \ IdsIn(backup1, "channels.json", "channels")
        /\ {r.id : r \in RecordsOf(report.channels.removed)}
              = IdsIn(backup1, "channels.json", "channels")
                   \ IdsIn(backup2, "channels.json", "channels")

\* two backups that share a record, each with one the other lacks
C10_Witness ==
    /\ pc = "reported"
    /\ report.users.added # <<>>
    /\ report.users.removed # <<>>
    /\ report.users.stats.total_before > report.users.stats.removed_count
    /\ report.channels.added # <<>>
    /\ report.channels.removed # <<>>

----------------------------------------------------------------------------
(* BackupComparator.generate_report on two backups that hold the same user *)
(* and the same channel, in two versions                                   *)

\* versions of a user: the tracked fields in several values and absent, and
\* versions that differ in untracked fields only (name, profile.email)
UserVersions ==
    {[id |-> 1, name |-> 1, deleted |-> FALSE, is_admin |-> FALSE, is_owner |-> FALSE,
      profile |-> [title |-> 1, real_name |-> 1]],
     [id |-> 1, name |-> 2, deleted |-> FALSE, is_admin |-> FALSE, is_owner |-> FALSE,
      profile |-> [title |-> 1, real_name |-> 1, email |-> 1]],
     [id |-> 1, name |-> 1, deleted |-> FALSE, is_admin |-> TRUE, is_owner |-> FALSE,
      profile |-> [title |-> 2, real_name |-> 1]],
     [id |-> 1, name |-> 1, deleted |-> TRUE, is_admin |-> FALSE, is_owner |-> TRUE,
      profile |-> [title |-> 1]],
     [id |-> 1, name |-> 1],
     [id |-> 1, name |-> 1, is_admin |-> FALSE, profile |-> [real_name |-> 2]]}

\* versions of a channel, likewise (untracked: is_private, topic.creator)
ChannelVersions ==
    {[id |-> 1, name |-> 1, is_archived |-> FALSE, num_members |-> 3,
      topic |-> [value |-> 1], purpose |-> [value |-> 1]],
     [id |-> 1, name |-> 1, is_archived |-> FALSE, num_members |-> 3, is_private |-> TRUE,
      topic |-> [value |-> 1, creator |-> 1], purpose |-> [value |-> 1]],
     [id |-> 1, name |-> 2, is_archived |-> TRUE, num_members |-> 1,
      topic |-> [value |-> 2], purpose |-> [value |-> 1]],
     [id |-> 1, name |-> 1, is_archived |-> FALSE, num_members |-> 0,
      topic |-> [value |-> 1]],
     [id |-> 1, name |-> 1, is_archived |-> FALSE, topic |-> [value |-> 1]],
     [id |-> 1, name |-> 1, num_members |-> 5, purpose |-> [value |-> 2]]}

\* the backup that holds one user and one channel
BackupHolding(u, c) ==
    [k \in {"users.json", "channels.json"} |->
        [ok   |-> TRUE,
         data |-> IF k = "users.json" THEN [members |-> <<u>>] ELSE [channels |-> <<c>>]]]

InitModified ==
    /\ now = [sec |-> NowSec, usec |-> 0]
    /\ DetectorIdle
    /\ ManagerIdle
    /\ ScriptIdle
    /\ LibraryIdle
    /\ backup1 \in {BackupHolding(u, c) : u \in UserVersions, c \in ChannelVersions}
    /\ backup2 \in {BackupHolding(u, c) : u \in UserVersions, c \in ChannelVersions}
    /\ report = <<>>
    /\ swapped_report = <<>>
    /\ pc = "compare_users"

SpecModified == InitModified /\ [][NextCompare]_vars

\* the two versions of the user and of the channel
User1 == backup1["users.json"].data.members[1]
User2 == backup2["users.json"].data.members[1]
Channel1 == backup1["channels.json"].data.channels[1]
Channel2 == backup2["channels.json"].data.channels[1]

\* the tracked fields of a user, each <<value>> or <<>> when the record lacks it
TrackedOfUser(u) ==
    [deleted   |-> IF "deleted" \in DOMAIN u THEN <<u.deleted>> ELSE <<>>,
     is_admin  |-> IF "is_admin" \in DOMAIN u THEN <<u.is_admin>> ELSE <<>>,
     is_owner  |-> IF "is_owner" \in DOMAIN u THEN <<u.is_owner>> ELSE <<>>,
     title     |-> IF "profile" \in DOMAIN u /\ "title" \in DOMAIN u.profile
                   THEN <<u.profile.title>> ELSE <<>>,
     real_name |-> IF "profile" \in DOMAIN u /\ "real_name" \in DOMAIN u.profile
                   THEN <<u.profile.real_name>> ELSE <<>>]

\* the tracked fields of a channel; a record without num_members counts as
\* having `absent_members` there
TrackedOfChannel(c, absent_members) ==
    [is_archived |-> IF "is_archived" \in DOMAIN c THEN <<c.is_archived>> ELSE <<>>,
     name        |-> IF "name" \in DOMAIN c THEN <<c.name>> ELSE <<>>,
     topic       |-> IF "topic" \in DOMAIN c /\ "value" \in DOMAIN c.topic
                     THEN <<c.topic.value>> ELSE <<>>,
     purpose     |-> IF "purpose" \in DOMAIN c /\ "value" \in DOMAIN c.purpose
                     THEN <<c.purpose.value>> ELSE <<>>,
     num_members |-> IF "num_members" \in DOMAIN c THEN <<c.num_members>>
                     ELSE absent_members]

\* the tracked fields in which two records differ
Differing(t1, t2) == {k \in DOMAIN t1 : t1[k] # t2[k]}

\* the modified list holds the record iff tracked fields differ, and then its
\* changes are exactly those fields with their old and new values
ModifiedAsTracked(modified, t1, t2) ==
    IF Differing(t1, t2) = {}
    THEN modified = <<>>
    ELSE /\ Len(modified) = 1
         /\ modified[1].id = 1
         /\ DOMAIN modified[1].changes = Differing(t1, t2)
         /\ \A k \in Differing(t1, t2) \ {"num_members"} :
               modified[1].changes[k] = [old |-> t1[k], new |-> t2[k]]
         /\ "num_members" \in Differing(t1, t2) =>
               /\ <<modified[1].changes.num_members.old>> = t1.num_members
               /\ <<modified[1].changes.num_members.new>> = t2.num_members
               /\ modified[1].changes.num_members.diff
                     = modified[1].changes.num_members.new
                          - modified[1].changes.num_members.old

\* C11 as stated: a user or channel present in both backups is in the modified
\* list iff at least one tracked field differs between the two records; its
\* changes map holds exactly the differing tracked fields with old and new
\* value (num_members also with diff = new - old); a record that lacks a
\* field differs there from one that has it.
C11_ModifiedIffTrackedFieldDiffers ==
    pc = "reported" =>
        /\ ModifiedAsTracked(report.users.modified,
                             TrackedOfUser(User1), TrackedOfUser(User2))
        /\ ModifiedAsTracked(report.channels.modified,
                             TrackedOfChannel(Channel1, <<>>),
                             TrackedOfChannel(Channel2, <<>>))

\* C11 amended: the same, a channel without num_members being read as having
\* num_members 0 (so it does not differ from one with 0 members, and the
\* change from or to it is recorded with the value 0).
C11_ModifiedIffTrackedFieldDiffersAbsentAsZero ==
    pc = "reported" =>
        /\ ModifiedAsTracked(report.users.modified,
                             TrackedOfUser(User1), TrackedOfUser(User2))
        /\ ModifiedAsTracked(report.channels.modified,
                             TrackedOfChannel(Channel1, <<0>>),
                             TrackedOfChannel(Channel2, <<0>>))

\* a user modified in two tracked fields, and a channel whose two versions
\* differ in untracked fields only and is not reported
C11_Witness ==
    /\ pc = "reported"
    /\ Len(report.users.modified) = 1
    /\ DOMAIN report.users.modified[1].changes = {"is_admin", "title"}
    /\ Channel1 # Channel2
    /\ report.channels.modified = <<>>

----------------------------------------------------------------------------
(* scripts/utils/smart_alerts.py: main, one step per statement that reads  *)
(* or writes state.  The snapshot file is [exists |-> FALSE], or            *)
(* [exists |-> TRUE, ok |-> FALSE] when json.load cannot parse it, or       *)
(* [exists |-> TRUE, ok |-> TRUE, data |-> the document].                   *)

\* load_previous_data returning {} for a file it cannot parse
load_previous_data_empty_on_error(file) ==
    IF ~file.exists THEN NoData
    ELSE IF file.ok THEN SomeData(file.data)
    ELSE SomeData(<<>>)

\* load_previous_data
load_previous_data(file) ==
    IF ~file.exists THEN NoData
    ELSE IF file.ok THEN SomeData(file.data)
    ELSE NoData

\* previous_data = load_previous_data(...) if args.compare, else None
MainLoadPrevious ==
    /\ pc = "main"
    /\ previous_data' = IF args.compare THEN load_previous_data(data_file) ELSE NoData
    /\ pc' = "ready"
    /\ UNCHANGED <<libVars, now, config, thresholds, workspace_data, users, previous_users,
                   channels, previous_channels, files, result, first_result,
                   managerVars, comparatorVars, scriptVars>>

\* alerts = detector.run_all_checks(...); alert_manager.add_alerts(alerts)
MainAddAlerts ==
    /\ pc = "returned"
    /\ main_alerts' = Some(result)
    /\ mgr_alerts' = add_alerts(mgr_alerts, result)
    /\ added_log' = added_log \o result
    /\ pc' = "save_output"
    /\ UNCHANGED <<libVars, now, detectorVars, comparatorVars, alert_file, answer, saved, args,
                   data_file, writable, exit_code>>

\* main going on when alert_manager.save() fails
MainSaveOutputSwallowingFailure ==
    /\ pc = "save_output"
    /\ IF args.output /\ writable.output
       THEN /\ alert_file' = [exists |-> TRUE, text |-> SavedDocument(mgr_alerts, now)]
            /\ saved' = mgr_alerts
       ELSE UNCHANGED <<alert_file, saved>>
    /\ pc' = "notify"
    /\ UNCHANGED <<libVars, now, detectorVars, comparatorVars, mgr_alerts, added_log, answer, scriptVars>>

\* if args.output: alert_manager.save(); open() may raise
MainSaveOutput ==
    /\ pc = "save_output"
    /\ IF ~args.output
       THEN /\ pc' = "notify"
            /\ UNCHANGED <<alert_file, saved>>
       ELSE IF writable.output
       THEN /\ alert_file' = [exists |-> TRUE, text |-> SavedDocument(mgr_alerts, now)]
            /\ saved' = mgr_alerts
            /\ pc' = "notify"
       ELSE /\ pc' = "failed"
            /\ UNCHANGED <<alert_file, saved>>
    /\ UNCHANGED <<libVars, now, detectorVars, comparatorVars, mgr_alerts, added_log, answer, scriptVars>>

\* if args.notify and alerts: send_notifications(...), which swallows the
\* failures of the webhook
MainNotify ==
    /\ pc = "notify"
    /\ pc' = "save_snapshot"
    /\ UNCHANGED <<libVars, now, detectorVars, comparatorVars, managerVars, scriptVars>>

\* if args.compare: save_workspace_data(current_data, ...); open() may raise
MainSaveSnapshot ==
    /\ pc = "save_snapshot"
    /\ IF ~args.compare
       THEN /\ pc' = "summary"
            /\ UNCHANGED data_file
       ELSE IF writable.data_file
       THEN /\ data_file' = [exists |-> TRUE, ok |-> TRUE, data |-> workspace_data]
            /\ pc' = "summary"
       ELSE /\ pc' = "failed"
            /\ UNCHANGED data_file
    /\ UNCHANGED <<libVars, now, detectorVars, comparatorVars, managerVars, args, main_alerts,
                   writable, exit_code>>

\* the exit code main chooses from the summary
ExitCodeOf(summary) ==
    IF summary.critical > 0 THEN 2
    ELSE IF summary.warning > 0 THEN 1
    ELSE 0

\* summary = alert_manager.get_summary(); sys.exit(2 / 1 / 0)
MainExit ==
    /\ pc = "summary"
    /\ exit_code' = <<ExitCodeOf(get_summary(mgr_alerts))>>
    /\ pc' = "exited"
    /\ UNCHANGED <<libVars, now, detectorVars, comparatorVars, managerVars, args, data_file,
                   main_alerts, writable>>

\* except Exception: sys.exit(1)
MainFail ==
    /\ pc \in {"raised", "failed"}
    /\ exit_code' = <<1>>
    /\ pc' = "exited"
    /\ UNCHANGED <<libVars, now, detectorVars, comparatorVars, managerVars, args, data_file,
                   main_alerts, writable>>

\* users of the workspace: two owners, one owner, nobody
MainUsers(clock) ==
    {<<[id |-> 1, name |-> 1, updated |-> clock.sec, is_admin |-> TRUE, is_owner |-> TRUE],
       [id |-> 2, name |-> 2, updated |-> clock.sec, is_admin |-> FALSE, is_owner |-> TRUE]>>,
     <<[id |-> 1, name |-> 1, updated |-> clock.sec, is_admin |-> TRUE, is_owner |-> TRUE]>>,
     <<>>}

\* channels of the workspace: none, an externally shared one, one without id
MainChannels ==
    {<<>>,
     <<[id |-> 1, name |-> 1, is_ext_shared |-> TRUE]>>,
     <<[name |-> 1, is_ext_shared |-> TRUE]>>}

\* the snapshot file: absent, unparsable, an empty document, a snapshot
SnapshotFiles ==
    {[exists |-> FALSE],
     [exists |-> TRUE, ok |-> FALSE],
     [exists |-> TRUE, ok |-> TRUE, data |-> <<>>],
     [exists |-> TRUE, ok |-> TRUE,
      data |-> [users    |-> <<[id |-> 1, name |-> 1, is_admin |-> FALSE, is_owner |-> FALSE]>>,
                channels |-> <<[id |-> 1, name |-> 1, is_archived |-> FALSE]>>,
                files    |-> <<>>]]}

\* the configuration after the command-line overrides
MainConfigs ==
    {<<>>, [external_sharing_limit |-> 0, admin_change_spike |-> 1]}

InitMain ==
    /\ now = [sec |-> NowSec, usec |-> 0]
    /\ config \in MainConfigs
    /\ thresholds = DetectorThresholds(config)
    /\ \E us \in MainUsers(now), cs \in MainChannels :
          workspace_data = [users |-> us, channels |-> cs, files |-> <<>>]
    /\ previous_data = NoData
    /\ users = <<>>
    /\ previous_users = None
    /\ channels = <<>>
    /\ previous_channels = None
    /\ files = <<>>
    /\ result = <<>>
    /\ first_result = NoRun
    /\ ManagerIdle
    /\ ComparatorIdle
    /\ LibraryIdle
    /\ args \in [compare : BOOLEAN, output : BOOLEAN, notify : BOOLEAN]
    /\ data_file \in SnapshotFiles
    /\ main_alerts = None
    /\ writable \in [output : BOOLEAN, data_file : BOOLEAN]
    /\ exit_code = <<>>
    /\ pc = "main"

NextMain ==
    \/ MainLoadPrevious
    \/ RunAllEnter
    \/ RunInactiveUsers
    \/ RunRecentDeactivations
    \/ RunAdminChanges
    \/ RunStorage
    \/ RunGuestAccounts
    \/ RunArchivedChannels
    \/ RunExternalSharing
    \/ MainAddAlerts
    \/ MainSaveOutput
    \/ MainNotify
    \/ MainSaveSnapshot
    \/ MainExit
    \/ MainFail

SpecMain == InitMain /\ [][NextMain]_vars

\* the alerts of a severity among those the checks returned
Returned(severity) == SelectSeq(main_alerts.list, LAMBDA a : a.severity = severity)

\* C12: the entry point exits with 2 whenever the checks return at least one
\* critical alert, with 1 when they return warnings but no critical alert, and
\* with 0 when they return no alerts; the three codes are pairwise distinct.
C12_ExitCodeBySeverity ==
    (pc = "exited" /\ main_alerts.given) =>
        /\ Returned(SEVERITY_CRITICAL) # <<>> => exit_code = <<2>>
        /\ (Returned(SEVERITY_CRITICAL) = <<>> /\ Returned(SEVERITY_WARNING) # <<>>)
              => exit_code = <<1>>
        /\ main_alerts.list = <<>> => exit_code = <<0>>

----------------------------------------------------------------------------
(* run_all_checks called twice on the same detector and snapshots *)

\* the caller keeps what the first run returned and calls run_all_checks again
RunAllAgain ==
    /\ pc = "returned"
    /\ ~first_result.given
    /\ first_result' = [given |-> TRUE, alerts |-> result, thresholds |-> thresholds]
    /\ pc' = "ready"
    /\ UNCHANGED <<libVars, now, config, thresholds, workspace_data, previous_data, users,
                   previous_users, channels, previous_channels, files, result,
                   managerVars, comparatorVars, scriptVars>>

NextRunTwice ==
    \/ RunAllEnter
    \/ RunInactiveUsers
    \/ RunRecentDeactivations
    \/ RunAdminChanges
    \/ RunStorage
    \/ RunGuestAccounts
    \/ RunArchivedChannels
    \/ RunExternalSharing
    \/ RunAllAgain

SpecRunTwice == InitRunAll /\ [][NextRunTwice]_vars

\* an alert without its timestamp
ContentOf(a) ==
    [alert_type |-> a.alert_type, severity |-> a.severity, title |-> a.title,
     message |-> a.message, details |-> a.details]

\* C13: a second run_all_checks on the same detector, snapshots and clock
\* reading returns alerts with the same alert_type, severity, title, message
\* and details in the same order as the first, and the thresholds the second
\* run reads are those the first run read.
C13_SecondRunSameAlerts ==
    first_result.given =>
        /\ thresholds = first_result.thresholds
        /\ pc = "returned" =>
              /\ Len(result) = Len(first_result.alerts)
              /\ \A i \in 1..Len(result) :
                    ContentOf(result[i]) = ContentOf(first_result.alerts[i])

\* a second run that returned alerts of at least three checks
C13_Witness ==
    /\ first_result.given
    /\ pc = "returned"
    /\ Cardinality({CheckRank(result[i].title) : i \in 1..Len(result)}) >= 3

----------------------------------------------------------------------------
(* run_all_checks on snapshots whose records may lack their id *)

MissingIdUsers ==
    {<<>>,
     <<[id |-> 1, name |-> 1, is_admin |-> TRUE, is_owner |-> TRUE]>>,
     <<[name |-> 1, is_admin |-> TRUE, is_owner |-> TRUE]>>,
     <<[id |-> 1, name |-> 1, is_admin |-> TRUE, is_owner |-> TRUE],
       [name |-> 2, is_admin |-> FALSE, is_owner |-> TRUE]>>}

MissingIdChannels ==
    {<<>>,
     <<[id |-> 1, name |-> 1, is_archived |-> TRUE]>>,
     <<[name |-> 1, is_archived |-> TRUE]>>,
     <<[name |-> 1, is_ext_shared |-> TRUE]>>,
     <<[name |-> 1, is_archived |-> FALSE]>>,
     <<[id |-> 1, name |-> 1, is_ext_shared |-> TRUE], [name |-> 2, is_ext_shared |-> TRUE]>>,
     <<[id |-> 1, name |-> 1, is_archived |-> TRUE], [name |-> 2]>>}

MissingIdPrevious ==
    {NoData,
     SomeData([users |-> <<>>, channels |-> <<>>]),
     SomeData([users    |-> <<[id |-> 1, name |-> 1, is_admin |-> FALSE, is_owner |-> FALSE]>>,
               channels |-> <<[id |-> 1, name |-> 1, is_archived |-> FALSE]>>]),
     SomeData([users |-> <<[name |-> 1, is_admin |-> FALSE]>>, channels |-> <<>>]),
     SomeData([users |-> <<>>, channels |-> <<[name |-> 1, is_archived |-> TRUE]>>]),
     SomeData([channels |-> <<[name |-> 1, is_archived |-> FALSE]>>])}

InitMissingId ==
    /\ now = [sec |-> NowSec, usec |-> 0]
    /\ config \in {<<>>, SensitiveConfig}
    /\ thresholds = DetectorThresholds(config)
    /\ \E us \in MissingIdUsers, cs \in MissingIdChannels :
          workspace_data = [users |-> us, channels |-> cs]
    /\ previous_data \in MissingIdPrevious
    /\ users = <<>>
    /\ previous_users = None
    /\ channels = <<>>
    /\ previous_channels = None
    /\ files = <<>>
    /\ pc = "ready"
    /\ result = <<>>
    /\ first_result = NoRun
    /\ ManagerIdle
    /\ ScriptIdle
    /\ LibraryIdle
    /\ ComparatorIdle

SpecMissingId == InitMissingId /\ [][NextRunAll]_vars

\* the records of the snapshots under a key
CurrentRecords(key) == GetD(workspace_data, key, <<>>)
PreviousRecords(key) ==
    IF previous_data.given THEN GetD(previous_data.dict, key, <<>>) ELSE <<>>

\* some record of a list lacks its id
SomeLacksId(l) == \E i \in 1..Len(l) : "id" \notin DOMAIN l[i]

\* the archived channels of a list
ArchivedOf(l) == SelectSeq(l, LAMBDA c : Flag(c, "is_archived"))

\* the externally shared, non-archived channels of the current snapshot
ExternalNow ==
    SelectSeq(CurrentRecords("channels"),
              LAMBDA c : Flag(c, "is_ext_shared") /\ ~Flag(c, "is_archived"))

\* a check subscripts the id of a record that lacks it
SubscriptedIdMissing ==
    \/ /\ PreviousRecords("users") # <<>>
       /\ SomeLacksId(PreviousRecords("users")) \/ SomeLacksId(CurrentRecords("users"))
    \/ /\ PreviousRecords("channels") # <<>>
       /\ \/ SomeLacksId(ArchivedOf(PreviousRecords("channels")))
          \/ SomeLacksId(ArchivedOf(CurrentRecords("channels")))
    \/ /\ Len(ExternalNow) > thresholds.external_sharing_count
       /\ SomeLacksId(Take(ExternalNow, SampleCap))

\* C14 as stated: if any user or channel record of the snapshots lacks its
\* id, run_all_checks raises and returns no alert list.
C14_MissingIdAborts ==
    (\/ SomeLacksId(CurrentRecords("users"))
     \/ SomeLacksId(CurrentRecords("channels"))
     \/ SomeLacksId(PreviousRecords("users"))
     \/ SomeLacksId(PreviousRecords("channels")))
        => pc # "returned"

\* C14 amended: run_all_checks raises, returning no alert list (not even the
\* alerts of the checks that ran before), exactly when a check subscripts the
\* id of a record that lacks it; otherwise it returns although ids are missing.
C14_SubscriptedMissingIdAborts ==
    /\ pc = "returned" => ~SubscriptedIdMissing
    /\ pc = "raised" => SubscriptedIdMissing /\ result = <<>>

\* the third check had produced an alert when a later check raised
C14_Witness ==
    /\ pc = "raised"
    /\ ~KeyErrorInAdminChanges(users, previous_users)
    /\ check_admin_changes(users, previous_users, thresholds, now) # <<>>

----------------------------------------------------------------------------
(* The two programs that read data files: smart_alerts.main with its        *)
(* previous-snapshot file, and BackupComparator.generate_report with the    *)
(* JSON files of two backup directories.  A behaviour is a run of one.      *)

InitDataFiles == InitMain \/ InitCompare

NextDataFiles == NextMain \/ NextCompare

SpecDataFiles == InitDataFiles /\ [][NextDataFiles]_vars

\* the program counters at which run_all_checks is executing a check
CheckPcs ==
    {"check_inactive_users", "check_recent_deactivations", "check_admin_changes",
     "check_storage", "check_guest_accounts", "check_archived_channels",
     "check_external_sharing"}

\* the alerts of the two comparisons with the previous snapshot
ComparisonAlerts ==
    SelectSeq(result, LAMBDA a : a.title \in {"Multiple Permission Changes",
                                              "Channel Archival Spike"})

\* a file of a backup directory exists but cannot be parsed / does not exist
Malformed(backup, filename) == filename \in DOMAIN backup /\ ~backup[filename].ok
Missing(backup, filename) == filename \notin DOMAIN backup

\* the records a backup file lists under a key, when it can be read
ListedIn(backup, filename, key) ==
    IF filename \in DOMAIN backup /\ backup[filename].ok
       /\ key \in DOMAIN backup[filename].data
    THEN backup[filename].data[key]
    ELSE <<>>

\* the report reads the collection of `filename` in backup1 as empty
OlderReadAsEmpty(filename) ==
    CASE filename = "users.json" ->
            /\ report.users.stats.total_before = 0
            /\ report.users.removed = <<>>
            /\ report.users.modified = <<>>
            /\ RecordsOf(report.users.added)
                  = RecordsOf(ListedIn(backup2, "users.json", "members"))
      [] filename = "channels.json" ->
            /\ report.channels.stats.total_before = 0
            /\ report.channels.removed = <<>>
            /\ report.channels.modified = <<>>
            /\ RecordsOf(report.channels.added)
                  = RecordsOf(ListedIn(backup2, "channels.json", "channels"))
      [] filename = "files_metadata.json" ->
            /\ report.files.stats.count_before = 0
            /\ report.files.stats.size_before = 0

\* the report reads the collection of `filename` in backup2 as empty
NewerReadAsEmpty(filename) ==
    CASE filename = "users.json" ->
            /\ report.users.stats.total_after = 0
            /\ report.users.added = <<>>
            /\ report.users.modified = <<>>
            /\ RecordsOf(report.users.removed)
                  = RecordsOf(ListedIn(backup1, "users.json", "members"))
      [] filename = "channels.json" ->
            /\ report.channels.stats.total_after = 0
            /\ report.channels.added = <<>>
            /\ report.channels.modified = <<>>
            /\ RecordsOf(report.channels.removed)
                  = RecordsOf(ListedIn(backup1, "channels.json", "channels"))
      [] filename = "files_metadata.json" ->
            /\ report.files.stats.count_after = 0
            /\ report.files.stats.size_after = 0

BackupFiles == {"users.json", "channels.json", "files_metadata.json"}

\* C15 as stated: a previous-snapshot file or a backup JSON file that exists
\* but cannot be parsed aborts the run: no check or comparison is executed and
\* no partial result is produced.
C15_MalformedFileAborts ==
    /\ (ScriptRunning /\ args.compare /\ data_file.exists /\ ~data_file.ok)
          => (pc \notin CheckPcs /\ pc # "returned" /\ ~main_alerts.given)
    /\ (\E f \in BackupFiles : Malformed(backup1, f) \/ Malformed(backup2, f))
          => report = <<>>

\* C15 amended: a file that exists but cannot be parsed is treated like a
\* missing one.  With an unparsable previous-snapshot file the run continues
\* with no previous data and no alert of the two comparisons; an unparsable
\* backup JSON file is read as an empty collection and the report is produced.
C15_MalformedFileReadAsMissing ==
    /\ (ScriptRunning /\ pc # "main" /\ args.compare /\ data_file.exists /\ ~data_file.ok)
          => /\ previous_data = NoData
             /\ pc = "returned" => ComparisonAlerts = <<>>
    /\ pc = "reported" =>
          \A f \in BackupFiles :
             /\ Malformed(backup1, f) => OlderReadAsEmpty(f)
             /\ Malformed(backup2, f) => NewerReadAsEmpty(f)

\* the checks returned alerts although the previous-snapshot file is unparsable
C15_Witness ==
    /\ ScriptRunning
    /\ args.compare
    /\ data_file.exists
    /\ ~data_file.ok
    /\ main_alerts.given
    /\ main_alerts.list # <<>>

\* C16: a missing data file is never an error.  With the previous-snapshot
\* file absent or unreadable the run continues with no previous data: the two
\* comparisons are skipped and every check returns what it returns without a
\* previous snapshot; the run fails only on a write.  A backup directory
\* without users.json, channels.json or the files JSON is compared with that
\* collection empty.
C16_MissingFileIsNotAnError ==
    /\ (ScriptRunning /\ pc # "main" /\ args.compare
        /\ (~data_file.exists \/ ~data_file.ok))
          => /\ previous_data = NoData
             /\ pc = "failed" => \/ args.output /\ ~writable.output
                                 \/ args.compare /\ ~writable.data_file
             /\ pc = "returned" =>
                   /\ previous_users = None
                   /\ previous_channels = None
                   /\ ComparisonAlerts = <<>>
                   /\ \A k \in 1..7 :
                         SelectSeq(result, LAMBDA a : CheckRank(a.title) = k)
                            = OutputOfCheck(k)
    /\ pc = "reported" =>
          \A f \in BackupFiles :
             /\ Missing(backup1, f) => OlderReadAsEmpty(f)
             /\ Missing(backup2, f) => NewerReadAsEmpty(f)

\* a report on a backup that holds records and an empty directory
C16_Witness ==
    /\ pc = "reported"
    /\ backup2 = <<>>
    /\ report.users.removed # <<>>
    /\ report.channels.removed # <<>>
    /\ report.files.stats.count_before > 0

----------------------------------------------------------------------------
(* Claims about AlertManager.add_alert, add_alerts, get_summary, get_alerts *)

\* C17: after any sequence of add_alert and add_alerts calls the manager's
\* list is the concatenation of all added alerts in call order: nothing is
\* dropped, reordered or deduplicated.
C17_AlertsAreAllAddedInOrder ==
    pc = "building" => mgr_alerts = added_log

\* the same alert was added twice and is held twice
C17_Witness ==
    /\ pc = "building"
    /\ Len(added_log) = 2
    /\ added_log[1] = added_log[2]
    /\ Len(mgr_alerts) = 2

\* the positions of a list whose alert has a severity / an alert type
WithSeverity(l, severity) == {i \in 1..Len(l) : l[i].severity = severity}
WithType(l, t) == {i \in 1..Len(l) : l[i].alert_type = t}

\* C18: get_summary returns total = number of alerts, critical / warning /
\* info = number of alerts of that severity, and by_type mapping each
\* alert_type that occurs to its number of occurrences, with no entry for a
\* type without alerts.
C18_SummaryCounts ==
    (pc = "answered" /\ answer.call = "get_summary") =>
        LET l == answer.held
            v == answer.value
        IN  /\ l = mgr_alerts
            /\ v.total = Len(l)
            /\ v.critical = Cardinality(WithSeverity(l, "critical"))
            /\ v.warning = Cardinality(WithSeverity(l, "warning"))
            /\ v.info = Cardinality(WithSeverity(l, "info"))
            /\ \A t \in DOMAIN v.by_type :
                  v.by_type[t] = Cardinality(WithType(l, t)) /\ v.by_type[t] > 0
            /\ \A i \in 1..Len(l) : l[i].alert_type \in DOMAIN v.by_type

\* the summary of two alerts of one type and different severities
C18_Witness ==
    /\ pc = "answered"
    /\ answer.call = "get_summary"
    /\ answer.value.total = 2
    /\ answer.value.critical = 1
    /\ answer.value.warning = 1
    /\ DOMAIN answer.value.by_type = {"permissions"}

\* the positions of the held list that match every filter given to the call
Matching ==
    {i \in 1..Len(answer.held) :
        /\ answer.severity # <<>> => answer.held[i].severity = answer.severity[1]
        /\ answer.alert_type # <<>> => answer.held[i].alert_type = answer.alert_type[1]}

\* the k-th smallest matching position
KthMatching(k) ==
    CHOOSE i \in Matching : Cardinality({j \in Matching : j <= i}) = k

\* C19: get_alerts(severity, alert_type) returns exactly the alerts matching
\* every filter given (all alerts when none is given), in their relative
\* order in the manager's list, and leaves that list unchanged.
C19_FilteredInOrder ==
    (pc = "answered" /\ answer.call = "get_alerts") =>
        /\ mgr_alerts = answer.held
        /\ Len(answer.value) = Cardinality(Matching)
        /\ \A k \in 1..Len(answer.value) : answer.value[k] = answer.held[KthMatching(k)]

----------------------------------------------------------------------------
(* check_guest_accounts called on its own *)

GuestConfigs == {<<>>} \cup {[guest_percentage |-> p] : p \in {0, 50, 55, 100}}

\* user records: flags absent, deleted, bot; guest flags absent, set or cleared
GuestKinds ==
    LET status == {<<>>,
                   [deleted |-> TRUE, is_bot |-> FALSE],
                   [deleted |-> FALSE, is_bot |-> TRUE]}
        guest  == {<<>>,
                   [is_restricted |-> TRUE],
                   [is_ultra_restricted |-> TRUE],
                   [is_restricted |-> FALSE, is_ultra_restricted |-> FALSE]}
    IN  {Merge(a, b) : a \in status, b \in guest}

\* a workspace of `total` active users of which `guests` are guests
GuestPopulation(guests, total) ==
    WithIds(Repeat([deleted |-> FALSE, is_bot |-> FALSE, is_restricted |-> TRUE], guests)
            \o Repeat([deleted |-> FALSE, is_bot |-> FALSE, is_restricted |-> FALSE],
                      total - guests))

InitGuest ==
    /\ now \in NowChoices
    /\ config \in GuestConfigs
    /\ thresholds = DetectorThresholds(config)
    /\ workspace_data = <<>>
    /\ previous_data = NoData
    /\ users \in
         {WithIds(s) : s \in SeqsUpTo(GuestKinds, MaxUsers)}
         \cup UNION {{GuestPopulation(g, t) : g \in 0..t} : t \in 1..MaxPop}
    /\ previous_users = None
    /\ channels = <<>>
    /\ previous_channels = None
    /\ files = <<>>
    /\ pc = "ready"
    /\ result = <<>>
    /\ first_result = NoRun
    /\ ManagerIdle
    /\ ScriptIdle
    /\ LibraryIdle
    /\ ComparatorIdle

CallCheckGuestAccounts ==
    /\ pc = "ready"
    /\ result' = check_guest_accounts(users, thresholds, now)
    /\ pc' = "returned"
    /\ UNCHANGED callArgs

NextGuest == CallCheckGuestAccounts

SpecGuest == InitGuest /\ [][NextGuest]_vars

----------------------------------------------------------------------------
(* Claims about check_guest_accounts *)

\* the non-deleted non-bot users flagged is_restricted or is_ultra_restricted
GuestUsers ==
    {i \in ActiveUsers :
        \/ ("is_restricted" \in DOMAIN users[i] /\ users[i].is_restricted)
        \/ ("is_ultra_restricted" \in DOMAIN users[i] /\ users[i].is_ultra_restricted)}

\* C20: check_guest_accounts emits no alert when there is no non-deleted
\* non-bot user, and otherwise emits exactly one security warning if and only
\* if the share of non-deleted non-bot users flagged is_restricted or
\* is_ultra_restricted, as a percentage, is strictly greater than
\* guest_percentage; a share exactly equal to the threshold gives no alert.
C20_GuestWarningIffShareExceeds ==
    pc = "returned" =>
        IF /\ ActiveUsers # {}
           /\ Cardinality(GuestUsers) * 100
                > thresholds.guest_account_percentage * Cardinality(ActiveUsers)
        THEN /\ Len(result) = 1
             /\ result[1].alert_type = "security"
             /\ result[1].severity = SEVERITY_WARNING
        ELSE result = <<>>

----------------------------------------------------------------------------
(* check_external_sharing called on its own *)

ExternalConfigs == {<<>>} \cup {[external_sharing_limit |-> k] : k \in {0, 1, 20, 21}}

\* channel records: flags absent, set or cleared
ExternalKinds ==
    {<<>>,
     [is_ext_shared |-> TRUE],
     [is_ext_shared |-> TRUE, is_archived |-> FALSE],
     [is_ext_shared |-> TRUE, is_archived |-> TRUE],
     [is_ext_shared |-> FALSE, is_archived |-> FALSE],
     [is_archived |-> TRUE]}

\* `archived` archived shared channels followed by `shared` live shared ones
\* and one channel that is not shared
ExternalPopulation(shared, archived) ==
    WithIds(Repeat([name |-> 0, is_ext_shared |-> TRUE, is_archived |-> TRUE], archived)
            \o Repeat([name |-> 0, is_ext_shared |-> TRUE, is_archived |-> FALSE], shared)
            \o <<[name |-> 0, is_ext_shared |-> FALSE]>>)

InitExternal ==
    /\ now \in NowChoices
    /\ config \in ExternalConfigs
    /\ thresholds = DetectorThresholds(config)
    /\ workspace_data = <<>>
    /\ previous_data = NoData
    /\ users = <<>>
    /\ previous_users = None
    /\ channels \in
         {WithIds(s) : s \in SeqsUpTo(ExternalKinds, MaxUsers)}
         \cup {ExternalPopulation(n, a) : n \in 0..MaxShared, a \in 0..2}
    /\ previous_channels = None
    /\ files = <<>>
    /\ pc = "ready"
    /\ result = <<>>
    /\ first_result = NoRun
    /\ ManagerIdle
    /\ ScriptIdle
    /\ LibraryIdle
    /\ ComparatorIdle

CallCheckExternalSharing ==
    /\ pc = "ready"
    /\ IF KeyErrorInExternalSharing(channels, thresholds)
       THEN result' = <<>> /\ pc' = "raised"
       ELSE /\ result' = check_external_sharing(channels, thresholds, now)
            /\ pc' = "returned"
    /\ UNCHANGED callArgs

NextExternal == CallCheckExternalSharing

SpecExternal == InitExternal /\ [][NextExternal]_vars

----------------------------------------------------------------------------
(* Claims about check_external_sharing *)

\* the channels flagged is_ext_shared that are not archived
SharedChannels ==
    {i \in 1..Len(channels) :
        /\ "is_ext_shared" \in DOMAIN channels[i] /\ channels[i].is_ext_shared
        /\ ~("is_archived" \in DOMAIN channels[i] /\ channels[i].is_archived)}

\* C21: check_external_sharing emits exactly one alert, of severity info, if
\* and only if the number of channels flagged is_ext_shared and not archived
\* is strictly greater than external_sharing_limit; archived shared channels
\* are never counted and a count equal to the limit gives no alert.
C21_ExternalSharingStrict ==
    pc \in {"returned", "raised"} =>
        /\ pc = "returned"
        /\ IF Cardinality(SharedChannels) > thresholds.external_sharing_count
           THEN /\ Len(result) = 1
                /\ result[1].severity = SEVERITY_INFO
                /\ result[1].alert_type = "security"
                /\ result[1].details.external_count = Cardinality(SharedChannels)
           ELSE result = <<>>

\* no alert for a count equal to the limit although archived shared channels
\* would bring it above
C21_Witness ==
    /\ pc = "returned"
    /\ result = <<>>
    /\ thresholds.external_sharing_count = 20
    /\ Cardinality(SharedChannels) = 20
    /\ \E i \in 1..Len(channels) :
          /\ "is_ext_shared" \in DOMAIN channels[i] /\ channels[i].is_ext_shared
          /\ "is_archived" \in DOMAIN channels[i] /\ channels[i].is_archived

----------------------------------------------------------------------------
(* AlertDetector(config): the constructor called on an override mapping *)

\* the keys AlertDetector.__init__ reads from the override mapping
RecognizedKeys ==
    {"inactive_user_threshold", "inactive_user_percentage", "storage_warning_gb",
     "storage_critical_gb", "deactivation_spike", "admin_change_spike",
     "channel_archive_spike", "guest_percentage", "external_sharing_limit"}

\* keys the constructor does not read, two of them names of stored thresholds
UnrecognizedKeys == {"inactive_user_days", "external_sharing_count", "webhook_url"}

\* the values an override carries
OverrideValues == {0, 7}

\* override mappings: at most MaxOverrides recognized keys and any unrecognized ones
OverrideMappings ==
    UNION {[ks -> OverrideValues] :
             ks \in {r \cup u : r \in {x \in SUBSET RecognizedKeys :
                                          Cardinality(x) <= MaxOverrides},
                                u \in {{}, {"inactive_user_days"}, UnrecognizedKeys}}}

InitThresholds ==
    /\ now = [sec |-> NowSec, usec |-> 0]
    /\ DetectorIdle
    /\ ManagerIdle
    /\ ScriptIdle
    /\ ComparatorIdle
    /\ detector_arg \in {NoData} \cup {SomeData(d) : d \in OverrideMappings}
    /\ RunnerIdle
    /\ api = <<>>
    /\ invocations = <<>>
    /\ pc = "new"

\* self.config = config or {}
ConfigOrEmpty(arg) == IF TruthyData(arg) THEN arg.dict ELSE <<>>

\* detector = AlertDetector(config)
NewDetector ==
    /\ pc = "new"
    /\ config' = ConfigOrEmpty(detector_arg)
    /\ thresholds' = DetectorThresholds(ConfigOrEmpty(detector_arg))
    /\ pc' = "constructed"
    /\ UNCHANGED <<now, workspace_data, previous_data, users, previous_users, channels,
                   previous_channels, files, result, first_result, managerVars,
                   comparatorVars, scriptVars, libVars>>

NextThresholds == NewDetector

SpecThresholds == InitThresholds /\ [][NextThresholds]_vars

----------------------------------------------------------------------------
(* Claims about AlertDetector.__init__ *)

\* the documented default of each recognized key
DocumentedDefault ==
    [inactive_user_threshold  |-> 90,
     inactive_user_percentage |-> 30,
     storage_warning_gb       |-> 80,
     storage_critical_gb      |-> 95,
     deactivation_spike       |-> 5,
     admin_change_spike       |-> 3,
     channel_archive_spike    |-> 10,
     guest_percentage         |-> 20,
     external_sharing_limit   |-> 50]

\* the threshold the checks read for a recognized key
ThresholdFor(key) ==
    CASE key = "inactive_user_threshold"  -> thresholds.inactive_user_days
      [] key = "inactive_user_percentage" -> thresholds.inactive_user_percentage
      [] key = "storage_warning_gb"       -> thresholds.storage_warning_gb
      [] key = "storage_critical_gb"      -> thresholds.storage_critical_gb
      [] key = "deactivation_spike"       -> thresholds.deactivation_spike_count
      [] key = "admin_change_spike"       -> thresholds.admin_change_spike
      [] key = "channel_archive_spike"    -> thresholds.channel_archive_spike
      [] key = "guest_percentage"         -> thresholds.guest_account_percentage
      [] key = "external_sharing_limit"   -> thresholds.external_sharing_count

\* C22: for every override mapping, none included, the threshold
\* configuration has a value for each of the nine recognized keys: the
\* caller's override when the mapping contains the key, the documented
\* default otherwise; keys that are not recognized change no threshold.
C22_OverrideOrDefault ==
    pc = "constructed" =>
        /\ Cardinality(DOMAIN thresholds) = Cardinality(RecognizedKeys)
        /\ \A key \in RecognizedKeys :
              ThresholdFor(key) =
                  IF detector_arg.given /\ key \in DOMAIN detector_arg.dict
                  THEN detector_arg.dict[key]
                  ELSE DocumentedDefault[key]

\* a mapping that overrides one key and carries unrecognized keys, one of
\* them the stored name of a threshold
C22_Witness ==
    /\ pc = "constructed"
    /\ detector_arg.given
    /\ DOMAIN detector_arg.dict = {"inactive_user_threshold"} \cup UnrecognizedKeys
    /\ detector_arg.dict["inactive_user_threshold"] = 7
    /\ detector_arg.dict["inactive_user_days"] = 0
    /\ thresholds.inactive_user_days = 7
    /\ thresholds.external_sharing_count = 50

----------------------------------------------------------------------------
(* SlackScript.run, one step per call it makes.  An outcome is "ok" or the  *)
(* class of the exception the call raises.                                  *)

\* subclasses of Exception, caught by `except Exception`
OrdinaryExceptions == {"Exception", "FileNotFoundError", "ValueError", "AttributeError"}

\* return code
Return(code) == [kind |-> "return", code |-> code]

\* an exception that leaves run()
Raise(exc) == [kind |-> "raise", exc |-> exc]

\* the handlers of the outer try: except KeyboardInterrupt uses self.logger
\* unguarded, except Exception tests it; anything else is not caught
OuterHandlers(exc, logger) ==
    IF exc = "KeyboardInterrupt"
    THEN IF logger THEN Return(130) ELSE Raise("AttributeError")
    ELSE IF exc \in OrdinaryExceptions THEN Return(1)
    ELSE Raise(exc)

\* a step whose inner handler returns at once, without the finally clause
AfterStepReturningAtOnce(outcome, caught, next, logger) ==
    IF outcome = "ok" THEN [pc |-> next, pending |-> <<>>]
    ELSE IF outcome \in caught THEN [pc |-> "run_done", pending |-> Return(1)]
    ELSE [pc |-> "run_cleanup", pending |-> OuterHandlers(outcome, logger)]

\* where run() goes after a step: on, or to the finally clause with the
\* `return 1` of the step's own handler or with what the outer handlers decide
AfterStep(outcome, caught, next, logger) ==
    IF outcome = "ok" THEN [pc |-> next, pending |-> <<>>]
    ELSE IF outcome \in caught THEN [pc |-> "run_cleanup", pending |-> Return(1)]
    ELSE [pc |-> "run_cleanup", pending |-> OuterHandlers(outcome, logger)]

\* the step after load_config with the Slack client always initialised
AfterConfigAlwaysSlack(require_slack) == "run_slack"

\* if self.require_slack: self.slack = SlackManager(...)
AfterConfig(require_slack) == IF require_slack THEN "run_slack" ELSE "run_validate"

InitRunner ==
    /\ now = [sec |-> NowSec, usec |-> 0]
    /\ DetectorIdle
    /\ ManagerIdle
    /\ ScriptIdle
    /\ ComparatorIdle
    /\ detector_arg = <<>>
    /\ api = <<>>
    /\ invocations = <<>>
    /\ script \in [require_slack : BOOLEAN, dry_run : BOOLEAN, logger : {FALSE}]
    /\ run_log = <<>>
    /\ run_pending = <<>>
    /\ run_outcome = <<>>
    /\ pc = "run_parse"

\* the variables run() leaves alone
runFrame == <<now, detectorVars, managerVars, comparatorVars, scriptVars, detector_arg, api, invocations>>

\* create_parser(), setup_arguments(parser), parser.parse_args()
RunParse ==
    /\ pc = "run_parse"
    /\ \E outcome \in {"ok", "Exception", "KeyboardInterrupt", "SystemExit"} :
          LET after == AfterStep(outcome, {}, "run_logger", script.logger)
          IN  /\ run_log' = Append(run_log, [step |-> "parse", outcome |-> outcome])
              /\ run_pending' = after.pending
              /\ pc' = after.pc
    /\ UNCHANGED <<runFrame, script, run_outcome>>

\* self.logger = setup_logger(...)
RunSetupLogger ==
    /\ pc = "run_logger"
    /\ \E outcome \in {"ok", "Exception", "KeyboardInterrupt"} :
          LET after == AfterStep(outcome, {}, "run_config", script.logger)
          IN  /\ run_log' = Append(run_log, [step |-> "logger", outcome |-> outcome])
              /\ script' = [script EXCEPT !.logger = (outcome = "ok")]
              /\ run_pending' = after.pending
              /\ pc' = after.pc
    /\ UNCHANGED <<runFrame, run_outcome>>

\* self.config = load_config(...), then the dry-run notice
RunLoadConfig ==
    /\ pc = "run_config"
    /\ \E outcome \in {"ok", "FileNotFoundError", "Exception", "KeyboardInterrupt"} :
          LET after == AfterStep(outcome, OrdinaryExceptions,
                                 AfterConfig(script.require_slack), script.logger)
          IN  /\ run_log' = Append(run_log, [step |-> "config", outcome |-> outcome])
              /\ run_pending' = after.pending
              /\ pc' = after.pc
    /\ UNCHANGED <<runFrame, script, run_outcome>>

\* self.slack = SlackManager(...)
RunInitSlack ==
    /\ pc = "run_slack"
    /\ \E outcome \in {"ok", "ValueError", "Exception", "KeyboardInterrupt"} :
          LET after == AfterStep(outcome, OrdinaryExceptions, "run_validate", script.logger)
          IN  /\ run_log' = Append(run_log, [step |-> "slack", outcome |-> outcome])
              /\ run_pending' = after.pending
              /\ pc' = after.pc
    /\ UNCHANGED <<runFrame, script, run_outcome>>

\* self.validate_arguments(): only ValueError has a handler of its own
RunValidate ==
    /\ pc = "run_validate"
    /\ \E outcome \in {"ok", "ValueError", "Exception", "KeyboardInterrupt"} :
          LET after == AfterStep(outcome, {"ValueError"}, "run_setup", script.logger)
          IN  /\ run_log' = Append(run_log, [step |-> "validate", outcome |-> outcome])
              /\ run_pending' = after.pending
              /\ pc' = after.pc
    /\ UNCHANGED <<runFrame, script, run_outcome>>

\* self.setup()
RunSetup ==
    /\ pc = "run_setup"
    /\ \E outcome \in {"ok", "FileNotFoundError", "Exception", "KeyboardInterrupt"} :
          LET after == AfterStep(outcome, OrdinaryExceptions, "run_execute", script.logger)
          IN  /\ run_log' = Append(run_log, [step |-> "setup", outcome |-> outcome])
              /\ run_pending' = after.pending
              /\ pc' = after.pc
    /\ UNCHANGED <<runFrame, script, run_outcome>>

\* self.execute(); return 0
RunExecute ==
    /\ pc = "run_execute"
    /\ \E outcome \in {"ok", "Exception", "KeyboardInterrupt", "SystemExit"} :
          LET after == AfterStep(outcome, {}, "run_cleanup", script.logger)
          IN  /\ run_log' = Append(run_log, [step |-> "execute", outcome |-> outcome])
              /\ run_pending' = IF outcome = "ok" THEN Return(0) ELSE after.pending
              /\ pc' = after.pc
    /\ UNCHANGED <<runFrame, script, run_outcome>>

\* finally: self.cleanup(), an Exception of which is logged and dropped; any
\* other exception replaces what run() was about to do
RunCleanup ==
    /\ pc = "run_cleanup"
    /\ \E outcome \in {"ok", "Exception", "KeyboardInterrupt"} :
          /\ run_log' = Append(run_log, [step |-> "cleanup", outcome |-> outcome])
          /\ run_outcome' = IF outcome \in {"ok"} \cup OrdinaryExceptions
                            THEN run_pending
                            ELSE Raise(outcome)
    /\ pc' = "run_done"
    /\ UNCHANGED <<runFrame, script, run_pending>>

NextRunner ==
    \/ RunParse
    \/ RunSetupLogger
    \/ RunLoadConfig
    \/ RunInitSlack
    \/ RunValidate
    \/ RunSetup
    \/ RunExecute
    \/ RunCleanup

SpecRunner == InitRunner /\ [][NextRunner]_vars

----------------------------------------------------------------------------
(* Claims about SlackScript.run *)

\* the positions of the log at which the cleanup hook was invoked
CleanupCalls == {i \in 1..Len(run_log) : run_log[i].step = "cleanup"}

\* C23: on every path through SlackScript.run (success, configuration load
\* failure, Slack client initialisation failure, argument validation
\* failure, setup failure, execute raising, keyboard interrupt) the cleanup
\* hook is executed exactly once before run finishes.
C23_CleanupExactlyOnce ==
    /\ Cardinality(CleanupCalls) <= 1
    /\ pc = "run_done" =>
          /\ Cardinality(CleanupCalls) = 1
          /\ run_log[Len(run_log)].step = "cleanup"

\* run() finished through the `return 1` of the configuration handler
C23_Witness ==
    /\ pc = "run_done"
    /\ Len(run_log) = 4
    /\ run_log[3] = [step |-> "config", outcome |-> "FileNotFoundError"]
    /\ run_log[4].step = "cleanup"
    /\ run_outcome = Return(1)

\* some call of the run raised KeyboardInterrupt
Interrupted == \E i \in 1..Len(run_log) : run_log[i].outcome = "KeyboardInterrupt"

\* execute() was called and completed without raising
ExecuteCompleted ==
    \E i \in 1..Len(run_log) : run_log[i] = [step |-> "execute", outcome |-> "ok"]

\* C24: SlackScript.run always returns an exit code and never lets an
\* exception escape: 130 when a KeyboardInterrupt was raised during the run,
\* 0 exactly when execute() completed without raising, 1 for every other
\* failure.
C24_AlwaysReturnsCode ==
    pc = "run_done" =>
        /\ run_outcome.kind = "return"
        /\ run_outcome.code = IF Interrupted THEN 130
                              ELSE IF ExecuteCompleted THEN 0
                              ELSE 1

\* the steps of the run before the finally clause
BodySteps == SelectSeq(run_log, LAMBDA e : e.step # "cleanup")

\* the sequence of steps of a run
StepOrder(require_slack) ==
    IF require_slack
    THEN <<"parse", "logger", "config", "slack", "validate", "setup", "execute">>
    ELSE <<"parse", "logger", "config", "validate", "setup", "execute">>

\* C26: the steps of SlackScript.run happen in the order parse arguments, set
\* up logger, load configuration, initialise the Slack client (only when
\* require_slack), validate arguments, setup hook, execute; execute() is
\* invoked only after every earlier step has succeeded, and once a step
\* fails no later step of that sequence is run.
C26_StepsInOrder ==
    script # <<>> =>
        /\ Len(BodySteps) <= Len(StepOrder(script.require_slack))
        /\ \A i \in 1..Len(BodySteps) :
              /\ BodySteps[i].step = StepOrder(script.require_slack)[i]
              /\ i < Len(BodySteps) => BodySteps[i].outcome = "ok"

\* a script that does not require Slack reached execute() without the client
C26_Witness ==
    /\ pc = "run_done"
    /\ ~script.require_slack
    /\ Len(BodySteps) = 6
    /\ BodySteps[4].step = "validate"
    /\ BodySteps[6] = [step |-> "execute", outcome |-> "ok"]

----------------------------------------------------------------------------
(* The checks that list affected entities, each called on its own on a      *)
(* workspace with more entities than a sample holds                         *)

\* k stale users who are admins and owners, then d users deleted just now
SampledUsers(k, d, clock, days) ==
    WithIds(Repeat([deleted |-> FALSE, is_bot |-> FALSE, is_admin |-> TRUE,
                    is_owner |-> TRUE,
                    updated |-> clock.sec - days * SecondsPerDay - 1], k)
            \o Repeat([deleted |-> TRUE, updated |-> clock.sec], d))

InitSamples ==
    /\ now \in NowChoices
    /\ config \in {<<>>, SensitiveConfig}
    /\ thresholds = DetectorThresholds(config)
    /\ workspace_data = <<>>
    /\ previous_data = NoData
    /\ \E k \in 0..MaxSampled :
          /\ users \in {SampledUsers(k, d, now, thresholds.inactive_user_days) :
                          d \in {0, 1, k}}
          /\ channels \in {ExternalPopulation(c, c) : c \in {0, k}}
    /\ previous_users = Some(WithIds(<<[is_admin |-> FALSE, is_owner |-> TRUE]>>))
    /\ previous_channels = Some(ChannelPopulation(1, FALSE))
    /\ files = <<>>
    /\ pc = "ready"
    /\ result = <<>>
    /\ first_result = NoRun
    /\ ManagerIdle
    /\ ScriptIdle
    /\ LibraryIdle
    /\ ComparatorIdle

NextSamples ==
    \/ CallCheckInactiveUsers
    \/ CallCheckRecentDeactivations
    \/ CallCheckAdminChanges
    \/ CallCheckArchivedChannels
    \/ CallCheckExternalSharing

SpecSamples == InitSamples /\ [][NextSamples]_vars

\* C25: in every alert a check emits, the sample list in details has length
\* min(count, 20) for the inactive-users, archived-channels and
\* external-sharing checks while the count field beside it reports the full
\* number; for the deactivation-spike and permission-change checks the list
\* is not capped and its length equals the reported count.
C25_SampleListLengths ==
    pc = "returned" =>
        \A i \in 1..Len(result) :
            LET d == result[i].details
            IN  /\ "inactive_count" \in DOMAIN d =>
                      /\ d.inactive_count = Cardinality(StaleUsers)
                      /\ Len(d.users) = IF d.inactive_count < 20 THEN d.inactive_count ELSE 20
                /\ "archived_count" \in DOMAIN d =>
                      /\ d.archived_count = Cardinality(NewlyArchivedIds)
                      /\ Len(d.channels) = IF d.archived_count < 20 THEN d.archived_count ELSE 20
                /\ "external_count" \in DOMAIN d =>
                      /\ d.external_count = Cardinality(SharedChannels)
                      /\ Len(d.channels) = IF d.external_count < 20 THEN d.external_count ELSE 20
                /\ "deactivation_count" \in DOMAIN d =>
                      /\ d.deactivation_count = Cardinality(RecentlyDeactivated)
                      /\ Len(d.users) = d.deactivation_count
                /\ "change_count" \in DOMAIN d =>
                      Len(d.changes) = d.change_count

\* the inactive-users alert for 21 inactive users lists 20 of them
C25_Witness ==
    /\ pc = "returned"
    /\ Len(result) = 1
    /\ "inactive_count" \in DOMAIN result[1].details
    /\ result[1].details.inactive_count = 21
    /\ Len(result[1].details.users) = 20

----------------------------------------------------------------------------
(* The comparator on backups whose lists may repeat an id *)

\* lists of <<id, kind>> over two ids, ids ascending, of at most MaxListed entries
ListedEntries ==
    {l \in SeqsUpTo({1, 2} \X {1, 2}, MaxListed) :
        \A i \in 1..(Len(l) - 1) : l[i][1] <= l[i + 1][1]}

\* the backup whose users.json and channels.json list those entries
ListedBackup(l) ==
    [k \in {"users.json", "channels.json"} |->
        [ok   |-> TRUE,
         data |-> IF k = "users.json"
                  THEN [members |-> [n \in 1..Len(l) |->
                           Merge([id |-> l[n][1]], ComparedUserKinds[l[n][2]])]]
                  ELSE [channels |-> [n \in 1..Len(l) |->
                           Merge([id |-> l[n][1]], ComparedChannelKinds[l[n][2]])]]]]

InitRepeated ==
    /\ now = [sec |-> NowSec, usec |-> 0]
    /\ DetectorIdle
    /\ ManagerIdle
    /\ ScriptIdle
    /\ LibraryIdle
    /\ backup1 \in {ListedBackup(l) : l \in ListedEntries}
    /\ backup2 \in {ListedBackup(l) : l \in ListedEntries}
    /\ report = <<>>
    /\ swapped_report = <<>>
    /\ pc = "compare_users"

SpecRepeated == InitRepeated /\ [][NextCompare]_vars

\* the ids of the entries of a list of the report
IdsOf(l) == {l[i].id : i \in 1..Len(l)}

\* the invariants of one comparison, given the file and key it read
ComparisonConsistent(r, filename, key) ==
    /\ IdsOf(r.added) \cap IdsOf(r.removed) = {}
    /\ IdsOf(r.added) \cap IdsOf(r.modified) = {}
    /\ IdsOf(r.removed) \cap IdsOf(r.modified) = {}
    /\ IdsOf(r.modified) \subseteq
          (IdsIn(backup1, filename, key) \cap IdsIn(backup2, filename, key))
    /\ r.stats.total_after
          = r.stats.total_before + r.stats.added_count - r.stats.removed_count
    /\ r.stats.added_count = Len(r.added)
    /\ r.stats.removed_count = Len(r.removed)
    /\ r.stats.modified_count = Len(r.modified)

\* C27: in the result of compare_users and of compare_channels the id sets
\* of added, removed and modified records are pairwise disjoint, modified
\* ids are ids common to both backups, total_after = total_before +
\* added_count - removed_count, and the three counts are the lengths of the
\* three lists, for any two backups, including ones that repeat an id.
C27_ComparisonConsistent ==
    pc = "reported" =>
        /\ ComparisonConsistent(report.users, "users.json", "members")
        /\ ComparisonConsistent(report.channels, "channels.json", "channels")

\* the older backup lists id 1 twice, with different records, and id 2; the
\* newer lists id 1 once: one user modified, one removed
C27_Witness ==
    /\ pc = "reported"
    /\ Len(backup1["users.json"].data.members) = 3
    /\ backup1["users.json"].data.members[1].id = 1
    /\ backup1["users.json"].data.members[2].id = 1
    /\ backup1["users.json"].data.members[1] # backup1["users.json"].data.members[2]
    /\ Len(backup2["users.json"].data.members) = 1
    /\ report.users.stats.total_before = 2
    /\ Len(report.users.modified) = 1
    /\ Len(report.users.removed) = 1

----------------------------------------------------------------------------
(* SlackManager: _validate_config, then one _api_call_with_retry, one step  *)
(* per iteration of its loop.  The sleeps take time and change no state.    *)

\* configuration files: max_retries absent, negative, zero, positive
ClientConfigs == {<<>>} \cup {[max_retries |-> n] : n \in (0 - 1)..MaxRetries}

\* _validate_config: max_retries is an int and not negative
AcceptedByValidateConfig(cfg) == ~(GetD(cfg, "max_retries", 3) < 0)

InitClient ==
    /\ now = [sec |-> NowSec, usec |-> 0]
    /\ DetectorIdle
    /\ ManagerIdle
    /\ ScriptIdle
    /\ ComparatorIdle
    /\ detector_arg = <<>>
    /\ RunnerIdle
    /\ invocations = <<>>
    /\ api \in [config : ClientConfigs, max_retries : {<<>>}, attempt : {0},
                calls : {<<>>}, result : {<<>>}]
    /\ pc = "client_new"

\* the variables the client leaves alone
clientFrame == <<now, detectorVars, managerVars, comparatorVars, scriptVars, detector_arg,
                 script, run_log, run_pending, run_outcome, invocations>>

\* SlackManager(config_path): _validate_config() raises ValueError or
\* self.max_retries = self.config.get('max_retries', 3)
NewClient ==
    /\ pc = "client_new"
    /\ IF AcceptedByValidateConfig(api.config)
       THEN /\ api' = [api EXCEPT !.max_retries = <<GetD(api.config, "max_retries", 3)>>]
            /\ pc' = "api_loop"
       ELSE /\ api' = [api EXCEPT !.result = Raise("ValueError")]
            /\ pc' = "client_invalid"
    /\ UNCHANGED clientFrame

\* one iteration of `for attempt in range(self.max_retries)`: the client
\* method is invoked and answers ok, ratelimited or with another API error
ApiAttempt ==
    /\ pc = "api_loop"
    /\ api.attempt < api.max_retries[1]
    /\ \E outcome \in {"ok", "ratelimited", "error"} :
          /\ api' = [api EXCEPT
                !.calls = Append(@, outcome),
                !.attempt = IF outcome = "ok" THEN @ ELSE @ + 1,
                !.result = IF outcome = "ok" THEN [kind |-> "return", call |-> Len(api.calls) + 1]
                           ELSE IF outcome = "error" /\ ~(api.attempt < api.max_retries[1] - 1)
                           THEN Raise("SlackApiError")
                           ELSE <<>>]
          /\ pc' = IF outcome = "ok"
                      \/ (outcome = "error" /\ ~(api.attempt < api.max_retries[1] - 1))
                   THEN "api_done" ELSE "api_loop"
    /\ UNCHANGED clientFrame

\* the loop ran out: raise Exception("Failed to complete API call ...")
ApiExhausted ==
    /\ pc = "api_loop"
    /\ ~(api.attempt < api.max_retries[1])
    /\ api' = [api EXCEPT !.result = Raise("Exception")]
    /\ pc' = "api_done"
    /\ UNCHANGED clientFrame

NextClient ==
    \/ NewClient
    \/ ApiAttempt
    \/ ApiExhausted

SpecClient == InitClient /\ [][NextClient]_vars

\* C28: for any sequence of API outcomes and any max_retries accepted by
\* _validate_config, _api_call_with_retry ends after invoking the client
\* method at least once and at most max_retries times; it returns the first
\* ok response, and it raises only after max_retries attempts have all
\* failed, a rate-limited attempt counting as one attempt.
C28_BoundedRetries ==
    /\ pc \in {"api_loop", "api_done"} => Len(api.calls) <= api.max_retries[1]
    /\ pc = "api_done" =>
          /\ Len(api.calls) >= 1
          /\ api.result.kind = "return" =>
                /\ api.result.call = Len(api.calls)
                /\ api.calls[Len(api.calls)] = "ok"
                /\ \A i \in 1..(Len(api.calls) - 1) : api.calls[i] # "ok"
          /\ api.result.kind = "raise" =>
                /\ Len(api.calls) = api.max_retries[1]
                /\ \A i \in 1..Len(api.calls) : api.calls[i] # "ok"

----------------------------------------------------------------------------
(* scripts/utils/smart_alerts.py run again and again on one snapshot file.  *)
(* invocations.start_file is the snapshot file as the current run found    *)
(* it, invocations.last the data of the latest earlier run with --compare   *)
(* that wrote the snapshot, invocations.since the number of runs that       *)
(* ended after that one.                                                    *)

\* the file save_workspace_data leaves
SnapshotOf(data) == [exists |-> TRUE, ok |-> TRUE, data |-> data]

\* the command lines of the runs
SnapshotArgs == [compare : BOOLEAN, output : BOOLEAN, notify : {FALSE}]

\* what collect_workspace_data returns: two owners, one owner and a shared
\* channel, one owner and a channel without id
SnapshotWorkspaces(clock) ==
    {[users |-> us, channels |-> <<>>, files |-> <<>>] :
        us \in {u \in MainUsers(clock) : Len(u) = 2}}
    \cup {[users |-> us, channels |-> cs, files |-> <<>>] :
        us \in {u \in MainUsers(clock) : Len(u) = 1}, cs \in MainChannels \ {<<>>}}

InitSnapshot ==
    /\ now = [sec |-> NowSec, usec |-> 0]
    /\ config \in MainConfigs
    /\ thresholds = DetectorThresholds(config)
    /\ workspace_data \in SnapshotWorkspaces(now)
    /\ previous_data = NoData
    /\ users = <<>>
    /\ previous_users = None
    /\ channels = <<>>
    /\ previous_channels = None
    /\ files = <<>>
    /\ result = <<>>
    /\ first_result = NoRun
    /\ ManagerIdle
    /\ ComparatorIdle
    /\ detector_arg = <<>>
    /\ RunnerIdle
    /\ api = <<>>
    /\ args \in SnapshotArgs
    /\ data_file \in SnapshotFiles
    /\ main_alerts = None
    /\ writable \in [output : BOOLEAN, data_file : BOOLEAN]
    /\ exit_code = <<>>
    /\ invocations = [count |-> 1, start_file |-> data_file, last |-> NoData, since |-> 0]
    /\ pc = "main"

\* load_config or SlackManager(...) raises before the snapshot is looked at
MainStartFails ==
    /\ pc = "main"
    /\ pc' = "failed"
    /\ UNCHANGED <<libVars, now, detectorVars, comparatorVars, managerVars, scriptVars>>

\* the process has exited; the script is started again on the files the
\* earlier runs left
MainNextRun ==
    /\ pc = "exited"
    /\ invocations.count < MaxRuns
    /\ invocations' =
          IF args.compare /\ data_file = SnapshotOf(workspace_data)
          THEN [count |-> invocations.count + 1, start_file |-> data_file,
                last |-> SomeData(workspace_data), since |-> 0]
          ELSE [count |-> invocations.count + 1, start_file |-> data_file,
                last |-> invocations.last, since |-> invocations.since + 1]
    /\ workspace_data' \in SnapshotWorkspaces(now)
    /\ previous_data' = NoData
    /\ users' = <<>>
    /\ previous_users' = None
    /\ channels' = <<>>
    /\ previous_channels' = None
    /\ files' = <<>>
    /\ result' = <<>>
    /\ mgr_alerts' = <<>>
    /\ added_log' = <<>>
    /\ answer' = <<>>
    /\ saved' = <<>>
    /\ args' \in SnapshotArgs
    /\ main_alerts' = None
    /\ writable' \in [output : BOOLEAN, data_file : BOOLEAN]
    /\ exit_code' = <<>>
    /\ pc' = "main"
    /\ UNCHANGED <<now, config, thresholds, first_result, comparatorVars, alert_file,
                   data_file, detector_arg, script, run_log, run_pending, run_outcome, api>>

NextSnapshot ==
    \/ MainStartFails
    \/ MainLoadPrevious
    \/ RunAllEnter
    \/ RunInactiveUsers
    \/ RunRecentDeactivations
    \/ RunAdminChanges
    \/ RunStorage
    \/ RunGuestAccounts
    \/ RunArchivedChannels
    \/ RunExternalSharing
    \/ MainAddAlerts
    \/ MainSaveOutput
    \/ MainNotify
    \/ MainSaveSnapshot
    \/ MainExit
    \/ MainFail
    \/ MainNextRun

SpecSnapshot == InitSnapshot /\ [][NextSnapshot]_vars

\* the snapshot file and what was read from it, at each point of a run
SnapshotInOrder ==
    /\ pc = "main" => data_file = invocations.start_file
    /\ pc = "ready" =>
          previous_data = IF args.compare THEN load_previous_data(invocations.start_file)
                          ELSE NoData
    /\ data_file # invocations.start_file =>
          /\ pc \in {"summary", "exited"}
          /\ args.compare
          /\ main_alerts.given
          /\ args.output =>
                alert_file = [exists |-> TRUE, text |-> SavedDocument(mgr_alerts, now)]
    /\ ~args.compare => data_file = invocations.start_file
    /\ (pc = "ready" /\ args.compare /\ invocations.last.given) =>
          previous_data = invocations.last

\* the only step that changes the snapshot file
SnapshotWrittenOnlyBySave ==
    data_file' # data_file =>
        /\ pc = "save_snapshot"
        /\ args.compare
        /\ data_file' = SnapshotOf(workspace_data)

----------------------------------------------------------------------------
(* scripts/utils/full_backup.py run twice, then BackupComparator on what it *)
(* wrote.  backup1 is the directory of the first run, backup2 that of the   *)
(* second; a comparator may also be given the first directory twice.  A      *)
(* file save_to_json wrote carries the type of the document, list or dict,  *)
(* which json.load gives back.                                              *)

\* lib.utils.save_to_json: the file json.dump leaves for a document
save_to_json(kind, data) == [ok |-> TRUE, kind |-> kind, data |-> data]

\* the directory after a file has been written into it
WithFile(dir, filename, file) ==
    [k \in DOMAIN dir \cup {filename} |-> IF k = filename THEN file ELSE dir[k]]

\* what slack.list_users(include_deleted=True) returns
ListedUsers ==
    {[n \in 1..Cardinality(S) |-> Merge([id |-> SetToSeq(S)[n]], ComparedUserKinds[1])] :
        S \in SUBSET (1..MaxSaved)}

\* what slack.list_channels(...) returns; the channel 2 is archived
ListedChannels ==
    {[n \in 1..Cardinality(S) |->
         Merge([id |-> SetToSeq(S)[n]],
               ComparedChannelKinds[IF SetToSeq(S)[n] = 2 THEN 2 ELSE 1])] :
        S \in SUBSET (1..MaxSaved)}

\* what slack.list_files(count=1000) returns
ListedFiles == {[n \in 1..k |-> [id |-> n, size |-> n]] : k \in 0..MaxSaved}

\* the command lines of full_backup
BackupArgs == [include_messages : BOOLEAN]

InitBackup ==
    /\ now = [sec |-> NowSec, usec |-> 0]
    /\ DetectorIdle
    /\ ManagerIdle
    /\ ComparatorIdle
    /\ LibraryIdle
    /\ args \in BackupArgs
    /\ data_file = [exists |-> FALSE]
    /\ main_alerts = None
    /\ writable = <<>>
    /\ exit_code = <<>>
    /\ pc = "backup_info"

\* the variables full_backup and the comparator leave alone
backupFrame == <<libVars, now, config, thresholds, workspace_data, previous_data,
                 previous_users, previous_channels, result, first_result, managerVars,
                 swapped_report, data_file, main_alerts, writable>>

\* the first run is still writing its directory
WritingFirst == "manifest.json" \notin DOMAIN backup1

\* backup_dir after save_to_json(document, backup_dir / filename)
SaveInBackupDir(filename, file) ==
    IF WritingFirst
    THEN /\ backup1' = WithFile(backup1, filename, file)
         /\ UNCHANGED backup2
    ELSE /\ backup2' = WithFile(backup2, filename, file)
         /\ UNCHANGED backup1

\* slack.get_workspace_info(); save_to_json(workspace_info, "workspace_info.json")
BackupInfo ==
    /\ pc = "backup_info"
    /\ SaveInBackupDir("workspace_info.json", save_to_json("dict", [ok |-> TRUE]))
    /\ pc' = "backup_users"
    /\ UNCHANGED <<backupFrame, users, channels, files, args, report, exit_code>>

\* users = slack.list_users(include_deleted=True); save_to_json(users, "users.json")
BackupUsers ==
    /\ pc = "backup_users"
    /\ users' \in ListedUsers
    /\ SaveInBackupDir("users.json", save_to_json("list", users'))
    /\ pc' = "backup_channels"
    /\ UNCHANGED <<backupFrame, channels, files, args, report, exit_code>>

\* channels = slack.list_channels(...); save_to_json(channels, "channels.json")
BackupChannels ==
    /\ pc = "backup_channels"
    /\ channels' \in ListedChannels
    /\ SaveInBackupDir("channels.json", save_to_json("list", channels'))
    /\ pc' = "backup_files"
    /\ UNCHANGED <<backupFrame, users, files, args, report, exit_code>>

\* files = slack.list_files(count=1000); save_to_json(files, "files.json")
BackupFileList ==
    /\ pc = "backup_files"
    /\ files' \in ListedFiles
    /\ SaveInBackupDir("files.json", save_to_json("list", files'))
    /\ pc' = "backup_messages"
    /\ UNCHANGED <<backupFrame, users, channels, args, report, exit_code>>

\* the channels that are not archived
ActiveChannels(chs) == SelectSeq(chs, LAMBDA ch : ~Flag(ch, "is_archived"))

\* if args.include_messages: one file under messages/ for each active channel
\* whose history was fetched and is not empty
BackupMessages ==
    /\ pc = "backup_messages"
    /\ IF args.include_messages
       THEN \E S \in SUBSET {ActiveChannels(channels)[i].id :
                                 i \in 1..Len(ActiveChannels(channels))} :
               SaveInBackupDir("messages", save_to_json("dir", S))
       ELSE UNCHANGED <<backup1, backup2>>
    /\ pc' = "backup_manifest"
    /\ UNCHANGED <<backupFrame, users, channels, files, args, report, exit_code>>

\* the manifest of a backup
Manifest(include_messages, us, chs, fs) ==
    [backup_type       |-> IF include_messages THEN "full" ELSE "metadata",
     user_count        |-> Len(us),
     channel_count     |-> Len(chs),
     file_count        |-> Len(fs),
     includes_messages |-> include_messages]

\* save_to_json(manifest, "manifest.json"); main returns
BackupManifest ==
    /\ pc = "backup_manifest"
    /\ SaveInBackupDir("manifest.json",
           save_to_json("dict", Manifest(args.include_messages, users, channels, files)))
    /\ pc' = "backup_done"
    /\ UNCHANGED <<backupFrame, users, channels, files, args, report, exit_code>>

\* except Exception: sys.exit(1), after a call of the Slack client raised
BackupFails ==
    /\ pc \in {"backup_info", "backup_users", "backup_channels", "backup_files"}
    /\ exit_code' = <<1>>
    /\ pc' = "backup_failed"
    /\ UNCHANGED <<backupFrame, users, channels, files, args, report, backup1, backup2>>

\* full_backup is run a second time
BackupAgain ==
    /\ pc = "backup_done"
    /\ backup2 = <<>>
    /\ args' \in BackupArgs
    /\ users' = <<>>
    /\ channels' = <<>>
    /\ files' = <<>>
    /\ pc' = "backup_info"
    /\ UNCHANGED <<backupFrame, report, exit_code, backup1, backup2>>

\* BackupComparator(first, first, logger)
NewComparatorOnOneBackup ==
    /\ pc = "backup_done"
    /\ backup2 = <<>>
    /\ backup2' = backup1
    /\ pc' = "generate_report"
    /\ UNCHANGED <<backupFrame, users, channels, files, args, report, exit_code, backup1>>

\* BackupComparator(first, second, logger)
NewComparatorOnTwoBackups ==
    /\ pc = "backup_done"
    /\ backup2 # <<>>
    /\ pc' = "generate_report"
    /\ UNCHANGED <<backupFrame, users, channels, files, args, report, exit_code,
                   backup1, backup2>>

\* the document _load_json_file returns is a dict: {} for a missing or
\* unparsable file, or a document that was saved as a dict
LoadsAsDict(backup, filename) ==
    \/ filename \notin DOMAIN backup
    \/ ~backup[filename].ok
    \/ "kind" \notin DOMAIN backup[filename]
    \/ backup[filename].kind = "dict"

\* BackupComparator.generate_report: compare_users, compare_channels and
\* compare_files call .get on the documents they load, which raises
\* AttributeError on a list
GenerateReport ==
    /\ pc = "generate_report"
    /\ IF \A b \in {backup1, backup2} :
             \A f \in {"users.json", "channels.json", "files_metadata.json"} :
                LoadsAsDict(b, f)
       THEN /\ report' = [users    |-> compare_users(backup1, backup2),
                          channels |-> compare_channels(backup1, backup2),
                          files    |-> compare_files(backup1, backup2)]
            /\ pc' = "reported"
       ELSE /\ report' = report
            /\ pc' = "raised"
    /\ UNCHANGED <<backupFrame, users, channels, files, args, exit_code, backup1, backup2>>

NextBackup ==
    \/ BackupInfo
    \/ BackupUsers
    \/ BackupChannels
    \/ BackupFileList
    \/ BackupMessages
    \/ BackupManifest
    \/ BackupFails
    \/ BackupAgain
    \/ NewComparatorOnOneBackup
    \/ NewComparatorOnTwoBackups
    \/ GenerateReport

SpecBackup == InitBackup /\ [][NextBackup]_vars

\* the number of records full_backup saved in a file of a backup
SavedIn(backup, filename) == Len(backup[filename].data)

\* C30: for two backup directories written by full_backup, generate_report
\* completes without error and its stats reflect what was written: the users
\* and channels totals equal the numbers of users and channels saved, the
\* files counts equal the numbers of files saved; comparing a backup with
\* itself reports no added, removed or modified record.
C30_ReportReflectsFullBackups ==
    pc \in {"reported", "raised"} =>
        /\ pc = "reported"
        /\ report.users.stats.total_before = SavedIn(backup1, "users.json")
        /\ report.users.stats.total_after = SavedIn(backup2, "users.json")
        /\ report.channels.stats.total_before = SavedIn(backup1, "channels.json")
        /\ report.channels.stats.total_after = SavedIn(backup2, "channels.json")
        /\ report.files.stats.count_before = SavedIn(backup1, "files.json")
        /\ report.files.stats.count_after = SavedIn(backup2, "files.json")
        /\ backup1 = backup2 =>
              \A part \in {"users", "channels"} :
                 /\ report[part].added = <<>>
                 /\ report[part].removed = <<>>
                 /\ report[part].modified = <<>>

====
